---- MODULE Spec2Model ----
(***************************************************************************)
(* Model of the ingestion service of the lidar pipeline:                   *)
(* src/lidar/examples/catcher/lidar_udp_receiver.py (LidarUDPReceiver).    *)
(*                                                                         *)
(* One owner thread calls connect / start_streaming / stop_streaming, any  *)
(* reader calls the get_latest_* getters, and every successful             *)
(* start_streaming spawns one thread running _data_receiving_loop.         *)
(* Only the receive and the join take time.  A receive on a socket with a   *)
(* timeout returns within RecvTimeout, so a join of JoinTimeout can expire  *)
(* only on a thread that is blocked in a receive longer than that.          *)
(***************************************************************************)
EXTENDS Integers, Sequences, FiniteSets, Bags, TLC

\* ------------------------------------------------------------------ bounds
\* receive threads alive at the same time
MaxThreads == 2
\* receive threads alive at the same time, where a reader polls as well
PollThreads == 1
\* datagrams one record() receives
MaxRecv == 3
\* the last reading of the wall clock
MaxTime == 2
\* calls of record() and save_data() on one recorder
MaxCalls == 2
\* point records in a message on the wire
MaxWirePoints == 2
\* points in an input of simple_clustering
MaxPoints == 4
\* points in an input of detect_objects
MaxScan == 6
\* points in an input of analyze_cluster
MaxCluster == 3
\* the longest list over the two places of PairPts handed to detect_objects
MaxPair == 11
\* the most objects handed to the display filter in one pass
MaxTargets == 2
\* the most SIGINT or SIGTERM signals delivered to one run()
MaxSignals == 1

\* ------------------------------------------------------- program constants
\* self.socket.settimeout(1.0), in seconds
RecvTimeout == 1
\* self.thread.join(timeout=2.0), in seconds
JoinTimeout == 2
\* struct.calcsize("=dI4f3f3f") = 8 + 4 + 16 + 12 + 12
imu_data_size == 52
\* struct.calcsize("=fffffI") = 5*4 + 4
point_size == 24
\* message_type of an IMU message
MSG_IMU == 101
\* message_type of a scan message
MSG_SCAN == 102

\* Python's None, and a present value, for the Optional slots
None == <<>>
Some(v) == <<v>>

\* ---------------------------------------------------------------- records
\* PointUnitree(x, y, z, intensity, time, ring)
PointUnitree(x, y, z, intensity, time, ring) ==
    [x |-> x, y |-> y, z |-> z, intensity |-> intensity, time |-> time, ring |-> ring]

\* ScanUnitree(stamp, id, validPointsNum, points)
ScanUnitree(stamp, id, validPointsNum, points) ==
    [stamp |-> stamp, id |-> id, validPointsNum |-> validPointsNum, points |-> points]

\* IMUUnitree(stamp, id, quaternion, angular_velocity, linear_acceleration)
IMUUnitree(stamp, id, quaternion, angular_velocity, linear_acceleration) ==
    [stamp |-> stamp, id |-> id, quaternion |-> quaternion,
     angular_velocity |-> angular_velocity,
     linear_acceleration |-> linear_acceleration]

\* ---------------------------------------------------------------- datagrams
\* A datagram is its byte count (size) and the fields its bytes hold, in
\* wire order: u32 type | u32 length | payload.  A field is only there when
\* the bytes that carry it are (size reaches its end offset); points holds
\* the whole 24-byte point records that follow byte 24.
Datagram(size, mtype, length, stamp, id, n, points, imu) ==
    [size |-> size, mtype |-> mtype, length |-> length, stamp |-> stamp, id |-> id,
     validPointsNum |-> n, points |-> points, imu |-> imu]

PA == PointUnitree(0, 0, 1, 7, 0, 0)
PB == PointUnitree(1, 0, 1, 9, 1, 3)
ImuBody == << <<1, 0, 0, 0>>, <<0, 0, 0>>, <<0, 0, 9>> >>

\* zero-length datagram
DgEmpty == Datagram(0, 0, 0, 0, 0, 0, <<>>, <<>>)
\* two bytes: not even a whole message_type
DgShort == Datagram(2, 0, 0, 0, 0, 0, <<>>, <<>>)
\* message_type 999
DgUnknown == Datagram(8, 999, 0, 0, 0, 0, <<>>, <<>>)
\* whole IMU messages: 8-byte header + imu_data_size
DgImu1 == Datagram(60, MSG_IMU, 52, 10, 1, 0, <<>>, ImuBody)
DgImu2 == Datagram(60, MSG_IMU, 52, 20, 2, 0, <<>>, ImuBody)
\* IMU message cut to 8 + 48 bytes
DgImuCut == Datagram(56, MSG_IMU, 48, 30, 3, 0, <<>>, ImuBody)
\* scan with no point
DgScan0 == Datagram(24, MSG_SCAN, 16, 10, 1, 0, <<>>, <<>>)
\* scan with two points (declared length off by design: it is not read)
DgScan2 == Datagram(72, MSG_SCAN, 0, 20, 2, 2, <<PA, PB>>, <<>>)
\* scan announcing two points and carrying one
DgScanCut == Datagram(48, MSG_SCAN, 64, 30, 3, 2, <<PA>>, <<>>)
\* scan cut inside its header
DgScanHdr == Datagram(20, MSG_SCAN, 16, 40, 4, 0, <<>>, <<>>)

Datagrams ==
    {DgEmpty, DgShort, DgUnknown, DgImu1, DgImu2, DgImuCut,
     DgScan0, DgScan2, DgScanCut, DgScanHdr}

\* struct.unpack(fmt, data[lo:hi]) succeeds iff the slice has hi-lo bytes
HasBytes(d, hi) == d.size >= hi

\* ------------------------------------------------------------------ decoding
\* _convert_to_point_cloud
_convert_to_point_cloud(scan_msg) ==
    [timestamp |-> scan_msg.stamp,
     points |-> IF scan_msg.validPointsNum > 0
                THEN [i \in 1..Len(scan_msg.points) |->
                         <<scan_msg.points[i].x, scan_msg.points[i].y, scan_msg.points[i].z>>]
                ELSE <<>>,
     intensities |-> IF scan_msg.validPointsNum > 0
                     THEN [i \in 1..Len(scan_msg.points) |-> scan_msg.points[i].intensity]
                     ELSE <<>>]

\* variant of the point loop in which a short slice ends the loop quietly
\* instead of raising
RECURSIVE UnpackPointsLenient(_, _, _)
UnpackPointsLenient(d, i, scan_points) ==
    IF i = d.validPointsNum \/ ~HasBytes(d, 24 + (i + 1) * point_size)
    THEN [ok |-> TRUE, points |-> scan_points]
    ELSE UnpackPointsLenient(d, i + 1, Append(scan_points, d.points[i + 1]))

\* the for loop of _parse_scan_message: point i is read from
\* data[24 + i*point_size : 24 + (i+1)*point_size]; a short slice raises
RECURSIVE UnpackPoints(_, _, _)
UnpackPoints(d, i, scan_points) ==
    IF i = d.validPointsNum THEN [ok |-> TRUE, points |-> scan_points]
    ELSE IF ~HasBytes(d, 24 + (i + 1) * point_size)
         THEN [ok |-> FALSE, points |-> scan_points]
         ELSE UnpackPoints(d, i + 1, Append(scan_points, d.points[i + 1]))

\* variant of _parse_scan_message in which the ScanUnitree is handed on
\* before the point loop has filled its list
ParseScanEarly(d) ==
    IF ~HasBytes(d, 24) THEN None
    ELSE LET scan_msg == ScanUnitree(d.stamp, d.id, d.validPointsNum, <<>>)
         IN  Some([scan |-> scan_msg, cloud |-> _convert_to_point_cloud(scan_msg)])

\* variant of _parse_scan_message that refuses a datagram whose declared
\* length is not the number of bytes after the header
ParseScanChecksLength(d) ==
    IF ~HasBytes(d, 24) \/ d.length # d.size - 8
    THEN None
    ELSE LET r == UnpackPoints(d, 0, <<>>)
         IN  IF ~r.ok THEN None
             ELSE LET scan_msg == ScanUnitree(d.stamp, d.id, d.validPointsNum, r.points)
                  IN  Some([scan |-> scan_msg, cloud |-> _convert_to_point_cloud(scan_msg)])

\* _parse_scan_message up to the lock: the decoded pair, or nothing when
\* an unpack raised (the except clause prints and returns)
ParseScan(d) ==
    IF ~HasBytes(d, 8) \/ ~HasBytes(d, 16) \/ ~HasBytes(d, 20) \/ ~HasBytes(d, 24)
    THEN None
    ELSE LET r == UnpackPoints(d, 0, <<>>)
         IN  IF ~r.ok THEN None
             ELSE LET scan_msg == ScanUnitree(d.stamp, d.id, d.validPointsNum, r.points)
                  IN  Some([scan |-> scan_msg, cloud |-> _convert_to_point_cloud(scan_msg)])

\* variant of _parse_imu_message that unpacks 48 payload bytes
ParseImu48(d) ==
    IF ~HasBytes(d, 8) \/ ~HasBytes(d, 8 + 48)
    THEN None
    ELSE Some(IMUUnitree(d.stamp, d.id, d.imu[1], d.imu[2], d.imu[3]))

\* _parse_imu_message up to the lock
ParseImu(d) ==
    IF ~HasBytes(d, 8) \/ ~HasBytes(d, 8 + imu_data_size)
    THEN None
    ELSE Some(IMUUnitree(d.stamp, d.id, d.imu[1], d.imu[2], d.imu[3]))

\* -------------------------------------------------------------------- state
VARIABLES
    self_socket,          \* self.socket: None, or the socket object's state
    running,              \* self.running
    thread,               \* self.thread: None, or the state of that thread
    others,               \* the live threads self.thread no longer names (a bag)
    latest_scan,          \* self.latest_scan
    latest_imu,           \* self.latest_imu
    latest_point_cloud,   \* self.latest_point_cloud
    data_lock,            \* self.data_lock is held
    mpc,                  \* where the owner thread is
    got,                  \* the last getter call, and its result
    lastConnect,          \* what the most recent connect() returned: never/ok/failed
    preSocket,            \* self.socket when the connect() under way was entered
    scanIn,               \* decoded form of the last decodable scan received
    arrived,              \* the scans received that decode, in order of arrival
    imuIn,                \* decoded form of the last decodable IMU received
    scanDone,             \* a _parse_scan_message has completed its assignment
    imuDone               \* a _parse_imu_message has completed its assignment

vars ==
    <<self_socket, running, thread, others, latest_scan, latest_imu,
      latest_point_cloud, data_lock, mpc, got, lastConnect, preSocket, scanIn, imuIn,
      arrived, scanDone, imuDone>>

slots == <<latest_scan, latest_imu, latest_point_cloud>>
threads == <<thread, others>>
ownerVars == <<mpc, lastConnect, preSocket>>
ghostIn == <<scanIn, imuIn, arrived>>
ghostDone == <<scanDone, imuDone>>

\* SimpleDroneDetector: one call of one of its functions
VARIABLES
    det_in,               \* the call: [fn, arg, size]
    det_out               \* None until the call has returned, then Some(result)

detVars == <<det_in, det_out>>

\* LidarDataRecorder, and the wall clock it reads
VARIABLES
    rec_pc,               \* where record() is: new, while, recvfrom, finally, save, done
    max_scans,            \* self.max_scans
    max_duration,         \* self.max_duration
    scan_data,            \* self.scan_data
    imu_data,             \* self.imu_data
    scan_count,           \* self.scan_count
    imu_count,            \* self.imu_count
    start_time,           \* self.start_time
    sock_closed,          \* self.sock has been closed
    now,                  \* time.time()
    received,             \* datagrams recvfrom has returned so far
    rec_stop,             \* how the while loop was left
    rec_ret,              \* what the last call returned: None, or Some(result)
    flushed,              \* the archives save_data has written, oldest first
    calls                 \* calls of record() and save_data() so far

recVars ==
    <<rec_pc, max_scans, max_duration, scan_data, imu_data, scan_count, imu_count,
      start_time, sock_closed, now, received, rec_stop, rec_ret, flushed, calls>>

\* one message through the decoders and back through the publisher
VARIABLES
    codec_pc,             \* none, in, decoded, encoded
    codec_in,             \* the bytes received
    codec_dec,            \* what the receiver and the recorder make of them
    codec_out             \* the bytes the publisher packs from the decoded record

codecVars == <<codec_pc, codec_in, codec_dec, codec_out>>

\* config.py: the class attributes of DetectionConfig that the presets and
\* configure.py assign, and the display filter of simple_drone_detector.py
VARIABLES
    CONFIDENCE_THRESHOLD,     \* in hundredths
    QUIET_MODE,
    SHOW_NON_DRONE_TARGETS,
    SHOW_LOW_CONFIDENCE,
    cfg_ret,                  \* the last call of configure.py and what it returned
    filtered_targets          \* what the last pass of the display filter shows

DetectionConfig ==
    <<CONFIDENCE_THRESHOLD, QUIET_MODE, SHOW_NON_DRONE_TARGETS, SHOW_LOW_CONFIDENCE>>
cfgVars == <<DetectionConfig, cfg_ret, filtered_targets>>

\* main.py: LidarSystem.run() and the two child processes
VARIABLES
    run_pc,               \* none, new, start_publisher, publisher_store,
                          \* publisher_sleep, start_detector, detector_store, loop,
                          \* stop_failed, finally, stop_det, stop_pub, done
    publisher_process,    \* self.publisher_process is a Popen object
    detector_process,     \* self.detector_process is a Popen object
    publisher_child,      \* the child itself: absent, alive, exited, terminated
    detector_child,
    sys_running,          \* self.running of LidarSystem
    stop_then,            \* where the stop_all() under way returns to
    signals,              \* the signals delivered so far
    run_ret               \* none, True, False, or exit (sys.exit in the handler)

childVars == <<publisher_child, detector_child>>
sysVars ==
    <<run_pc, publisher_process, detector_process, childVars, sys_running, stop_then,
      signals, run_ret>>

\* what the receiver's, the detector's, the recorder's, the codec's, the
\* configuration's and the launcher's operations leave alone
aside == <<detVars, recVars, codecVars, cfgVars, sysVars>>
detAside == <<vars, recVars, codecVars, cfgVars, sysVars>>
recAside == <<vars, detVars, codecVars, cfgVars, sysVars>>
codecAside == <<vars, detVars, recVars, cfgVars, sysVars>>
cfgAside == <<vars, detVars, recVars, codecVars, sysVars>>
sysAside == <<vars, detVars, recVars, codecVars, cfgVars>>
allVars == <<vars, detVars, recVars, codecVars, cfgVars, sysVars>>

\* Socket objects.  socket.socket(AF_INET, SOCK_DGRAM) is not bound,
\* blocking (no timeout) and open.
NewSock == [bound |-> FALSE, timeout |-> FALSE, closed |-> FALSE]

\* The socket a thread is receiving on: the object self.socket names
\* ("self"), or an object self.socket named before ("old"), whose state
\* no call changes any more.  An object that neither self.socket nor a
\* thread inside recvfrom reaches is closed and freed by the runtime.
NoSock == [ref |-> "none", bound |-> FALSE, closed |-> FALSE]
SelfSock == [ref |-> "self", bound |-> FALSE, closed |-> FALSE]
OldSock(so) == [ref |-> "old", bound |-> so.bound, closed |-> so.closed]

\* A thread at the loop test, holding nothing.  note is what the loop did
\* last: "skipped" (a datagram was printed as unknown or as a parse error
\* and the loop went on), or how the loop ended: "stopped" (self.running
\* was false), "socket" (recvfrom raised), "datagram" (the unpack of the
\* message type raised).
NoThread ==
    [pc |-> "while", sock |-> NoSock, tmo |-> FALSE, msg |-> None, note |-> "none"]

Skipped == [NoThread EXCEPT !.note = "skipped"]

\* every live thread: self.thread and the others
Alive(r) == r.pc # "dead"
Live == (IF thread # None /\ Alive(thread[1]) THEN {thread[1]} ELSE {}) \cup BagToSet(others)
NumLive == (IF thread # None /\ Alive(thread[1]) THEN 1 ELSE 0) + BagCardinality(others)

\* bags of live threads: a thread that has ended is dropped
Put(B, r) == IF Alive(r) THEN B (+) SetToBag({r}) ELSE B
Take(B, r) == B (-) SetToBag({r})
RECURSIVE MapBag(_, _, _)
MapBag(B, S, so) ==
    IF S = {} THEN EmptyBag
    ELSE LET r == CHOOSE x \in S : TRUE
             r2 == IF r.sock.ref = "self" THEN [r EXCEPT !.sock = OldSock(so)] ELSE r
         IN  MapBag(B, S \ {r}, so) (+) [x \in {r2} |-> B[r]]

\* __init__
Init ==
    /\ self_socket = None
    /\ running = FALSE
    /\ thread = None
    /\ others = EmptyBag
    /\ latest_scan = None
    /\ latest_imu = None
    /\ latest_point_cloud = None
    /\ data_lock = FALSE
    /\ mpc = "idle"
    /\ got = [op |-> "none", val |-> None, done |-> FALSE]
    /\ lastConnect = "never"
    /\ preSocket = None
    /\ scanIn = None
    /\ imuIn = None
    /\ arrived = <<>>
    /\ scanDone = FALSE
    /\ imuDone = FALSE

\* ------------------------------------------------------- the owner's calls
\* connect(), line 105: socket.socket(...) raised; lines 110-112 return False
ConnectNoSocket ==
    /\ mpc = "idle"
    /\ lastConnect' = "failed"
    /\ UNCHANGED <<self_socket, running, threads, slots, data_lock, mpc, got,
                   preSocket, ghostIn, ghostDone>>
    /\ UNCHANGED aside

\* connect(), line 105: self.socket = socket.socket(AF_INET, SOCK_DGRAM).
\* The threads inside recvfrom on the object named so far keep it.
ConnectCreate ==
    /\ mpc = "idle"
    /\ self_socket' = Some(NewSock)
    /\ preSocket' = self_socket
    /\ IF self_socket = None
       THEN UNCHANGED threads
       ELSE /\ thread' = IF thread # None /\ thread[1].sock.ref = "self"
                         THEN Some([thread[1] EXCEPT !.sock = OldSock(self_socket[1])])
                         ELSE thread
            /\ others' = MapBag(others, BagToSet(others), self_socket[1])
    /\ mpc' = "connect_bind"
    /\ UNCHANGED <<running, slots, data_lock, got, lastConnect, ghostIn, ghostDone>>
    /\ UNCHANGED aside

\* the port is free for the new socket: no thread of this receiver is still
\* inside recvfrom on an open socket bound to it
PortFree == \A r \in Live : ~(r.sock.ref = "old" /\ r.sock.bound /\ ~r.sock.closed)

\* connect(), line 106: bind succeeds
ConnectBind ==
    /\ mpc = "connect_bind"
    /\ PortFree
    /\ self_socket' = Some([self_socket[1] EXCEPT !.bound = TRUE])
    /\ mpc' = "connect_settimeout"
    /\ UNCHANGED <<running, threads, slots, data_lock, got, lastConnect, preSocket,
                   ghostIn, ghostDone>>
    /\ UNCHANGED aside

\* connect(), line 106: bind raises (the port is taken, here or by another
\* process); lines 110-112 print and return False
ConnectBindFail ==
    /\ mpc = "connect_bind"
    /\ mpc' = "idle"
    /\ lastConnect' = "failed"
    /\ preSocket' = None
    /\ UNCHANGED <<self_socket, running, threads, slots, data_lock, got, ghostIn,
                   ghostDone>>
    /\ UNCHANGED aside

\* connect(), lines 107-109: settimeout(1.0); return True
ConnectSetTimeout ==
    /\ mpc = "connect_settimeout"
    /\ self_socket' = Some([self_socket[1] EXCEPT !.timeout = TRUE])
    /\ mpc' = "idle"
    /\ lastConnect' = "ok"
    /\ preSocket' = None
    /\ UNCHANGED <<running, threads, slots, data_lock, got, ghostIn, ghostDone>>
    /\ UNCHANGED aside

\* start_streaming(), lines 121-130: what the call returns
StartReturns == self_socket # None

\* start_streaming(): on False nothing is changed; on True self.running is
\* set and self.thread is a new, started thread (limit bounds the threads
\* alive at the same time)
StartStreaming(limit) ==
    /\ mpc = "idle"
    /\ IF ~StartReturns
       THEN UNCHANGED <<running, threads>>
       ELSE /\ NumLive < limit
            /\ running' = TRUE
            /\ thread' = Some(NoThread)
            /\ others' = IF thread = None THEN others ELSE Put(others, thread[1])
    /\ UNCHANGED <<self_socket, slots, data_lock, ownerVars, got, ghostIn, ghostDone>>
    /\ UNCHANGED aside

\* stop_streaming(), line 134: self.running = False, then the join begins
StopBegin ==
    /\ mpc = "idle"
    /\ running' = FALSE
    /\ mpc' = "stop_join"
    /\ UNCHANGED <<self_socket, threads, slots, data_lock, got, lastConnect,
                   preSocket, ghostIn, ghostDone>>
    /\ UNCHANGED aside

\* join(timeout=2.0) can expire only on a thread that stays in a receive
\* for JoinTimeout: one without timeout, or with one that is no shorter
JoinCanExpire(r) == r.pc = "recvfrom" /\ (r.tmo => RecvTimeout >= JoinTimeout)

\* stop_streaming(), lines 135-136: the join is over (there is no thread,
\* it is not alive, it has ended, or the timeout has passed)
JoinOver ==
    IF thread = None THEN TRUE
    ELSE ~Alive(thread[1]) \/ JoinCanExpire(thread[1])

\* variant of stop_streaming that also drops the cached frames
StopJoinClears ==
    /\ mpc = "stop_join"
    /\ JoinOver
    /\ self_socket' = IF self_socket # None
                      THEN Some([self_socket[1] EXCEPT !.closed = TRUE])
                      ELSE self_socket
    /\ latest_scan' = None
    /\ latest_imu' = None
    /\ latest_point_cloud' = None
    /\ mpc' = "idle"
    /\ UNCHANGED <<running, threads, data_lock, got, lastConnect, preSocket,
                   ghostIn, ghostDone>>
    /\ UNCHANGED aside

\* stop_streaming(), lines 135-139: join returns, the socket is closed
StopJoin ==
    /\ mpc = "stop_join"
    /\ JoinOver
    /\ self_socket' = IF self_socket # None
                      THEN Some([self_socket[1] EXCEPT !.closed = TRUE])
                      ELSE self_socket
    /\ mpc' = "idle"
    /\ UNCHANGED <<running, threads, slots, data_lock, got, lastConnect, preSocket,
                   ghostIn, ghostDone>>
    /\ UNCHANGED aside

\* ------------------------------------------------------------- the getters
\* get_latest_scan(): with self.data_lock: return self.latest_scan
get_latest_scan ==
    /\ ~data_lock
    /\ got' = [op |-> "get_latest_scan", val |-> latest_scan, done |-> scanDone]
    /\ UNCHANGED <<self_socket, running, threads, slots, data_lock, ownerVars,
                   ghostIn, ghostDone>>
    /\ UNCHANGED aside

\* get_latest_imu(): with self.data_lock: return self.latest_imu
get_latest_imu ==
    /\ ~data_lock
    /\ got' = [op |-> "get_latest_imu", val |-> latest_imu, done |-> imuDone]
    /\ UNCHANGED <<self_socket, running, threads, slots, data_lock, ownerVars,
                   ghostIn, ghostDone>>
    /\ UNCHANGED aside

\* get_latest_raw_data(): with self.data_lock: return self.latest_point_cloud
get_latest_raw_data ==
    /\ ~data_lock
    /\ got' = [op |-> "get_latest_raw_data", val |-> latest_point_cloud,
               done |-> scanDone]
    /\ UNCHANGED <<self_socket, running, threads, slots, data_lock, ownerVars,
                   ghostIn, ghostDone>>
    /\ UNCHANGED aside

\* ------------------------------------------------- _data_receiving_loop
\* The thread that takes a step: self.thread ("self") or one of the others
Actors ==
    (IF thread # None /\ Alive(thread[1]) THEN {<<"self", thread[1]>>} ELSE {})
    \cup {<<"other", r>> : r \in BagToSet(others)}

\* thread a goes on as r2
Becomes(a, r2) ==
    IF a[1] = "self"
    THEN thread' = Some(r2) /\ others' = others
    ELSE thread' = thread /\ others' = Put(Take(others, a[2]), r2)

\* the socket object a thread's recvfrom is on
SockOf(r) == IF r.sock.ref = "self" THEN self_socket[1] ELSE r.sock

\* lines 163, 166: the loop test, then the call of self.socket.recvfrom.
\* With self.running false the loop ends.  On a closed socket recvfrom
\* raises at once and the except clause of line 182 breaks.
LoopTest(a) ==
    /\ a[2].pc = "while"
    /\ Becomes(a, IF ~running THEN [NoThread EXCEPT !.pc = "dead", !.note = "stopped"]
                  ELSE IF self_socket[1].closed
                       THEN [NoThread EXCEPT !.pc = "dead", !.note = "socket"]
                       ELSE [NoThread EXCEPT !.pc = "recvfrom", !.sock = SelfSock,
                                             !.tmo = self_socket[1].timeout])
    /\ UNCHANGED <<self_socket, running, slots, data_lock, ownerVars, got, ghostIn,
                   ghostDone>>
    /\ UNCHANGED aside

\* lines 170-177: where the loop goes with datagram d in hand.
\* struct.unpack("=I", data[:4]) raises on fewer than 4 bytes, and that is
\* caught by line 182, which breaks.
Dispatch(d) ==
    IF ~HasBytes(d, 4) THEN [NoThread EXCEPT !.pc = "dead", !.note = "datagram"]
    ELSE IF d.mtype = MSG_IMU
         THEN IF ParseImu(d) = None THEN Skipped
              ELSE [NoThread EXCEPT !.pc = "imu_lock", !.msg = ParseImu(d)]
    ELSE IF d.mtype = MSG_SCAN
         THEN IF ParseScan(d) = None THEN Skipped
              ELSE [NoThread EXCEPT !.pc = "scan_lock", !.msg = ParseScan(d)]
    ELSE Skipped

\* line 166 returns a datagram; lines 170-177 and the parse up to the lock
Recv(a, d) ==
    /\ a[2].pc = "recvfrom"
    /\ SockOf(a[2]).bound
    /\ ~SockOf(a[2]).closed
    /\ Becomes(a, Dispatch(d))
    /\ UNCHANGED <<self_socket, running, slots, data_lock, ownerVars, got, ghostDone>>
    /\ UNCHANGED aside

Receive(a, d) == Recv(a, d) /\ UNCHANGED ghostIn

\* the same step, with the arrival noted: scanIn and imuIn are the decoded
\* forms of the last scan and IMU datagrams received that decode
ReceiveNoted(a, d) ==
    /\ Recv(a, d)
    /\ scanIn' = IF HasBytes(d, 4) /\ d.mtype = MSG_SCAN /\ ParseScan(d) # None
                 THEN Some(ParseScan(d)[1].scan) ELSE scanIn
    /\ imuIn' = IF HasBytes(d, 4) /\ d.mtype = MSG_IMU /\ ParseImu(d) # None
                THEN ParseImu(d) ELSE imuIn
    /\ arrived' = arrived

\* the datagrams of a sender whose scans all differ
OrderDatagrams == {DgScan0, DgScan2, DgImu1}

\* the same step with the order of arrival kept: arrived lists the scans
\* that decode, the first received first; no scan is sent twice
ReceiveInOrder(a, d) ==
    /\ Recv(a, d)
    /\ IF d.mtype = MSG_SCAN /\ ParseScan(d) # None
       THEN /\ \A i \in 1..Len(arrived) : arrived[i] # ParseScan(d)[1].scan
            /\ arrived' = Append(arrived, ParseScan(d)[1].scan)
       ELSE arrived' = arrived
    /\ UNCHANGED <<scanIn, imuIn>>

\* line 179: socket.timeout, RecvTimeout after the call
ReceiveTimeout(a) ==
    /\ a[2].pc = "recvfrom"
    /\ a[2].tmo
    /\ Becomes(a, NoThread)
    /\ UNCHANGED <<self_socket, running, slots, data_lock, ownerVars, got, ghostIn,
                   ghostDone>>
    /\ UNCHANGED aside

\* line 166 raises another exception than socket.timeout (OSError);
\* lines 182-185 print and break
ReceiveError(a) ==
    /\ a[2].pc = "recvfrom"
    /\ Becomes(a, [NoThread EXCEPT !.pc = "dead", !.note = "socket"])
    /\ UNCHANGED <<self_socket, running, slots, data_lock, ownerVars, got, ghostIn,
                   ghostDone>>
    /\ UNCHANGED aside

\* variant of the IMU assignment that also drops the cached scan
PublishImuDropsScan(a) ==
    /\ a[2].pc = "imu_lock"
    /\ ~data_lock
    /\ latest_imu' = a[2].msg
    /\ latest_scan' = None
    /\ imuDone' = TRUE
    /\ Becomes(a, NoThread)
    /\ UNCHANGED <<self_socket, running, latest_point_cloud, data_lock,
                   ownerVars, got, ghostIn, scanDone>>
    /\ UNCHANGED aside

\* _parse_imu_message, lines 201-202
PublishImu(a) ==
    /\ a[2].pc = "imu_lock"
    /\ ~data_lock
    /\ latest_imu' = a[2].msg
    /\ imuDone' = TRUE
    /\ Becomes(a, NoThread)
    /\ UNCHANGED <<self_socket, running, latest_scan, latest_point_cloud, data_lock,
                   ownerVars, got, ghostIn, scanDone>>
    /\ UNCHANGED aside

\* variant of the first assignment made without taking the lock
PublishScanUnlocked(a) ==
    /\ a[2].pc = "scan_lock"
    /\ ~data_lock
    /\ data_lock' = data_lock
    /\ latest_scan' = Some(a[2].msg[1].scan)
    /\ Becomes(a, [a[2] EXCEPT !.pc = "scan_cloud"])
    /\ UNCHANGED <<self_socket, running, latest_imu, latest_point_cloud, ownerVars,
                   got, ghostIn, ghostDone>>
    /\ UNCHANGED aside

\* _parse_scan_message, lines 233-234: the lock is taken, latest_scan set
PublishScan(a) ==
    /\ a[2].pc = "scan_lock"
    /\ ~data_lock
    /\ data_lock' = TRUE
    /\ latest_scan' = Some(a[2].msg[1].scan)
    /\ Becomes(a, [a[2] EXCEPT !.pc = "scan_cloud"])
    /\ UNCHANGED <<self_socket, running, latest_imu, latest_point_cloud, ownerVars,
                   got, ghostIn, ghostDone>>
    /\ UNCHANGED aside

\* variant of the second assignment that leaves the with block without
\* releasing the lock
PublishCloudKeepsLock(a) ==
    /\ a[2].pc = "scan_cloud"
    /\ data_lock
    /\ data_lock' = data_lock
    /\ latest_point_cloud' = Some(a[2].msg[1].cloud)
    /\ scanDone' = TRUE
    /\ Becomes(a, NoThread)
    /\ UNCHANGED <<self_socket, running, latest_scan, latest_imu, ownerVars, got,
                   ghostIn, imuDone>>
    /\ UNCHANGED aside

\* _parse_scan_message, line 235: latest_point_cloud set, the lock released
PublishCloud(a) ==
    /\ a[2].pc = "scan_cloud"
    /\ data_lock
    /\ data_lock' = FALSE
    /\ latest_point_cloud' = Some(a[2].msg[1].cloud)
    /\ scanDone' = TRUE
    /\ Becomes(a, NoThread)
    /\ UNCHANGED <<self_socket, running, latest_scan, latest_imu, ownerVars, got,
                   ghostIn, imuDone>>
    /\ UNCHANGED aside

\* ------------------------------------------------- simple_drone_detector.py
\* Lengths are in centimetres, so that the 0.01 of calculate_confidence is 1.
\* A point is <<x, y, z>>.  A quotient num/den is kept as Q(num, den), and a
\* square root sqrt(sq)/den as Root(sq, den): the code's comparisons are
\* made on them exactly.
CLUSTERING_DISTANCE == 50
MIN_POINTS_PER_CLUSTER == 3
DRONE_SIZE_MIN == 10
DRONE_SIZE_MAX_XY == 200
DRONE_SIZE_MAX_Z == 100
DETECTION_DISTANCE_MIN == 100
DETECTION_DISTANCE_MAX == 5000
MIN_HEIGHT == 50
\* SimpleDroneDetector.__init__
min_cluster_size == 5
max_cluster_size == 100
min_height == 50
max_height == 1000
\* the 20.0 and the 0.01 of calculate_confidence
FullCount == 20
Epsilon == 1

Q(num, den) == [num |-> num, den |-> den]
Root(sq, den) == [sq |-> sq, den |-> den]
Abs(x) == IF x < 0 THEN 0 - x ELSE x
Max2(x, y) == IF x >= y THEN x ELSE y
Min2(x, y) == IF x <= y THEN x ELSE y
SetMax(S) == CHOOSE x \in S : \A y \in S : y <= x
SetMin(S) == CHOOSE x \in S : \A y \in S : x <= y
RECURSIVE SeqSum(_)
SeqSum(q) ==
    IF q = <<>> THEN 0
    ELSE IF Len(q) = 1 THEN q[1]
    ELSE LET half == Len(q) \div 2
         IN  SeqSum(SubSeq(q, 1, half)) + SeqSum(SubSeq(q, half + 1, Len(q)))
Coord(cluster, k) == [i \in 1..Len(cluster) |-> cluster[i][k]]
Range(q) == {q[i] : i \in 1..Len(q)}

\* variant of calculate_distance that measures the difference in height
\* alone
calculate_distance_sq_z(p1, p2) ==
    (p1[3] - p2[3]) * (p1[3] - p2[3])

\* calculate_distance: the square root of this; sqrt(a) < d iff a < d*d
calculate_distance_sq(p1, p2) ==
    (p1[1] - p2[1]) * (p1[1] - p2[1]) + (p1[2] - p2[2]) * (p1[2] - p2[2])
        + (p1[3] - p2[3]) * (p1[3] - p2[3])

\* simple_clustering, line 76: calculate_distance(...) < CLUSTERING_DISTANCE
Near(p1, p2) ==
    calculate_distance_sq(p1, p2) < CLUSTERING_DISTANCE * CLUSTERING_DISTANCE

\* simple_clustering, lines 72-79: the for j loop around current_idx, from
\* index j on; st is the cluster (as indices into points), the used set
\* and the queue.  The loop takes, in index order, every index that was
\* not used when it began and is near the current point.
InnerFor(points, current_idx, j, st) ==
    LET Taken(k) == k \notin st.used /\ Near(points[current_idx], points[k])
        found == SelectSeq([k \in 1..(Len(points) + 1 - j) |-> k + j - 1], Taken)
    IN  [cluster |-> st.cluster \o found,
         used |-> st.used \cup {found[k] : k \in 1..Len(found)},
         queue |-> st.queue \o found]

\* simple_clustering, lines 68-79: while queue.  Once no unused index is
\* near a queued point every further pass pops one index and takes none,
\* so the loop ends with the cluster and the used set as they are.
RECURSIVE WhileQueue(_, _)
WhileQueue(points, st) ==
    IF st.queue = <<>> THEN st
    ELSE IF \A k \in 1..Len(points) :
                k \in st.used
                    \/ \A m \in 1..Len(st.queue) : ~Near(points[st.queue[m]], points[k])
         THEN [st EXCEPT !.queue = <<>>]
         ELSE WhileQueue(points,
                         InnerFor(points, Head(st.queue), 1,
                                  [st EXCEPT !.queue = Tail(@)]))

\* variant of the outer loop that does not carry the used set over to the
\* next unvisited point
RECURSIVE OuterForForgets(_, _, _, _)
OuterForForgets(points, i, used, clusters) ==
    IF i > Len(points) THEN clusters
    ELSE LET st == WhileQueue(points, [cluster |-> <<i>>, used |-> {i}, queue |-> <<i>>])
         IN  OuterForForgets(points, i + 1, {}, Append(clusters, st.cluster))

\* simple_clustering, lines 59-82: for i, point in enumerate(points), from
\* index i on; the passes whose index is in used do nothing (continue), so
\* the next pass that acts is the one of the least index not in used
RECURSIVE OuterFor(_, _, _, _)
OuterFor(points, i, used, clusters) ==
    LET unused == {k \in i..Len(points) : k \notin used}
    IN  IF unused = {} THEN clusters
        ELSE LET first == CHOOSE k \in unused : \A m \in unused : k <= m
                 st == WhileQueue(points, [cluster |-> <<first>>,
                                           used |-> used \cup {first},
                                           queue |-> <<first>>])
             IN  OuterFor(points, first + 1, st.used, Append(clusters, st.cluster))

\* variant of the clustering that takes each point only with its direct
\* neighbours and never follows the queue
RECURSIVE OneHop(_, _, _, _)
OneHop(points, i, used, clusters) ==
    IF i > Len(points) THEN clusters
    ELSE IF i \in used THEN OneHop(points, i + 1, used, clusters)
    ELSE LET st == InnerFor(points, i, 1, [cluster |-> <<i>>, used |-> used \cup {i},
                                           queue |-> <<>>])
         IN  OneHop(points, i + 1, st.used, Append(clusters, st.cluster))

simple_clustering_one_hop(points) ==
    IF Len(points) = 0 THEN <<>> ELSE OneHop(points, 1, {}, <<>>)

\* simple_clustering(points): the clusters, each the list of the indices
\* (1-based) of its points in the order the code appends them
simple_clustering(points) ==
    IF Len(points) = 0 THEN <<>> ELSE OuterFor(points, 1, {}, <<>>)

\* the points of a cluster of indices
ClusterPoints(points, cluster) == [k \in 1..Len(cluster) |-> points[cluster[k]]]

\* variant of calculate_confidence without the 0.01 in the divisor and
\* without the clamp at 0
calculate_confidence_raw(cluster, size_x, size_y, size_z) ==
    LET point_confidence == Q(Min2(Len(cluster), FullCount), FullCount)
        aspect_ratio == Q(Max2(size_x, size_y), Min2(size_x, size_y))
        size_confidence == Q(aspect_ratio.den - Abs(aspect_ratio.num - aspect_ratio.den),
                             aspect_ratio.den)
    IN  Q(point_confidence.num * size_confidence.den
              + size_confidence.num * point_confidence.den,
          2 * point_confidence.den * size_confidence.den)

\* calculate_confidence, lines 135-144.  A quotient with den = 0 is a
\* ZeroDivisionError.
calculate_confidence(cluster, size_x, size_y, size_z) ==
    LET point_confidence == Q(Min2(Len(cluster), FullCount), FullCount)
        aspect_ratio == Q(Max2(size_x, size_y), Min2(size_x, size_y) + Epsilon)
        size_confidence ==
            Q(Max2(0, aspect_ratio.den - Abs(aspect_ratio.num - aspect_ratio.den)),
              aspect_ratio.den)
    IN  Q(point_confidence.num * size_confidence.den
              + size_confidence.num * point_confidence.den,
          2 * point_confidence.den * size_confidence.den)

\* floor(sqrt(n)) for 0 <= n < 2^31, by bisection of lo..hi
RECURSIVE Bisect(_, _, _)
Bisect(n, lo, hi) ==
    IF lo = hi THEN lo
    ELSE LET mid == (lo + hi + 1) \div 2
         IN  IF mid * mid <= n THEN Bisect(n, mid, hi) ELSE Bisect(n, lo, mid - 1)
FloorSqrt(n) == Bisect(n, 0, 46340)

\* lo <= sqrt(r.sq)/r.den <= hi, for lo, hi >= 0 and r.den > 0
RootWithin(lo, r, hi) ==
    LET f == FloorSqrt(r.sq)
    IN  /\ lo * r.den <= f
        /\ f < hi * r.den \/ (f = hi * r.den /\ f * f = r.sq)

\* variant of analyze_cluster that measures the distance band on the
\* distance in space instead of the horizontal distance
analyze_cluster_3d(cluster) ==
    IF Len(cluster) < MIN_POINTS_PER_CLUSTER THEN None
    ELSE LET n == Len(cluster)
             sum_x == SeqSum(Coord(cluster, 1))
             sum_y == SeqSum(Coord(cluster, 2))
             sum_z == SeqSum(Coord(cluster, 3))
             size_x == SetMax(Range(Coord(cluster, 1))) - SetMin(Range(Coord(cluster, 1)))
             size_y == SetMax(Range(Coord(cluster, 2))) - SetMin(Range(Coord(cluster, 2)))
             size_z == SetMax(Range(Coord(cluster, 3))) - SetMin(Range(Coord(cluster, 3)))
             distance == Root(sum_x * sum_x + sum_y * sum_y + sum_z * sum_z, n)
         IN  Some([center |-> <<Q(sum_x, n), Q(sum_y, n), Q(sum_z, n)>>,
                   size |-> <<size_x, size_y, size_z>>,
                   distance |-> distance,
                   point_count |-> n,
                   is_drone_like |->
                       /\ DRONE_SIZE_MIN <= size_x /\ size_x <= DRONE_SIZE_MAX_XY
                       /\ DRONE_SIZE_MIN <= size_y /\ size_y <= DRONE_SIZE_MAX_XY
                       /\ DRONE_SIZE_MIN <= size_z /\ size_z <= DRONE_SIZE_MAX_Z
                       /\ RootWithin(DETECTION_DISTANCE_MIN, distance, DETECTION_DISTANCE_MAX)
                       /\ sum_z >= MIN_HEIGHT * n,
                   confidence |-> calculate_confidence(cluster, size_x, size_y, size_z)])

\* analyze_cluster, lines 90-133: None, or the obj_info dictionary
analyze_cluster(cluster) ==
    IF Len(cluster) < MIN_POINTS_PER_CLUSTER THEN None
    ELSE LET n == Len(cluster)
             sum_x == SeqSum(Coord(cluster, 1))
             sum_y == SeqSum(Coord(cluster, 2))
             sum_z == SeqSum(Coord(cluster, 3))
             size_x == SetMax(Range(Coord(cluster, 1))) - SetMin(Range(Coord(cluster, 1)))
             size_y == SetMax(Range(Coord(cluster, 2))) - SetMin(Range(Coord(cluster, 2)))
             size_z == SetMax(Range(Coord(cluster, 3))) - SetMin(Range(Coord(cluster, 3)))
             distance == Root(sum_x * sum_x + sum_y * sum_y, n)
         IN  Some([center |-> <<Q(sum_x, n), Q(sum_y, n), Q(sum_z, n)>>,
                   size |-> <<size_x, size_y, size_z>>,
                   distance |-> distance,
                   point_count |-> n,
                   is_drone_like |->
                       /\ DRONE_SIZE_MIN <= size_x /\ size_x <= DRONE_SIZE_MAX_XY
                       /\ DRONE_SIZE_MIN <= size_y /\ size_y <= DRONE_SIZE_MAX_XY
                       /\ DRONE_SIZE_MIN <= size_z /\ size_z <= DRONE_SIZE_MAX_Z
                       /\ RootWithin(DETECTION_DISTANCE_MIN, distance, DETECTION_DISTANCE_MAX)
                       /\ sum_z >= MIN_HEIGHT * n,
                   confidence |-> calculate_confidence(cluster, size_x, size_y, size_z)])

\* detect_objects, lines 28-32: the indices of the points kept by the
\* height filter, in order
ValidIdx(points, i) ==
    LET Valid(k) == min_height <= points[k][3] /\ points[k][3] <= max_height
    IN  SelectSeq([k \in 1..(Len(points) + 1 - i) |-> k + i - 1], Valid)

\* variant of the for cluster loop without the upper limit on the size
RECURSIVE AnalyzeAllNoMax(_, _, _)
AnalyzeAllNoMax(valid_points, clusters, k) ==
    IF k > Len(clusters) THEN <<>>
    ELSE LET cluster == clusters[k]
             obj_info == IF min_cluster_size <= Len(cluster)
                         THEN analyze_cluster(ClusterPoints(valid_points, cluster))
                         ELSE None
         IN  obj_info \o AnalyzeAllNoMax(valid_points, clusters, k + 1)

\* detect_objects, lines 41-46: the for cluster loop
RECURSIVE AnalyzeAll(_, _, _)
AnalyzeAll(valid_points, clusters, k) ==
    IF k > Len(clusters) THEN <<>>
    ELSE LET cluster == clusters[k]
             obj_info == IF min_cluster_size <= Len(cluster)
                            /\ Len(cluster) <= max_cluster_size
                         THEN analyze_cluster(ClusterPoints(valid_points, cluster))
                         ELSE None
         IN  obj_info \o AnalyzeAll(valid_points, clusters, k + 1)

\* variant of detect_objects that clusters the points as given, without
\* the height filter
detect_objects_unfiltered(points) ==
    IF Len(points) = 0 THEN <<>>
    ELSE IF Len(points) < min_cluster_size THEN <<>>
         ELSE AnalyzeAll(points, simple_clustering(points), 1)

\* detect_objects, lines 21-48
detect_objects(points) ==
    IF Len(points) = 0 THEN <<>>
    ELSE LET valid == ValidIdx(points, 1)
             valid_points == [k \in 1..Len(valid) |-> points[valid[k]]]
         IN  IF Len(valid_points) < min_cluster_size THEN <<>>
             ELSE AnalyzeAll(valid_points, simple_clustering(valid_points), 1)

\* The detector's functions are applied to an input drawn at the start.
\* inputs of simple_clustering: two near points, a far one, and one that is
\* exactly CLUSTERING_DISTANCE from the first and nearer to the second
ClusterPts == {<<0, 0, 100>>, <<10, 0, 100>>, <<500, 500, 100>>, <<30, 40, 100>>}

\* inputs of detect_objects: points on one vertical line, on and next to
\* the two ends of the height band
DetectPts == {<<0, 0, 50>>, <<0, 0, 49>>, <<0, 0, 1000>>, <<0, 0, 1001>>}

\* inputs of analyze_cluster: points around 10 m, 1 m and 50 m from the
\* sensor, whose combinations sit on and next to each band's ends
AnalyzePts ==
    {<<1000, 0, 200>>, <<1010, 10, 210>>, <<1030, 30, 220>>, <<1009, 9, 209>>,
     <<1200, 200, 300>>, <<1201, 201, 301>>,
     <<95, -5, 45>>, <<105, 5, 55>>, <<100, 0, 50>>,
     <<4995, -5, 200>>, <<5005, 5, 210>>, <<5000, 0, 205>>}

\* inputs of detect_objects around the limits on the cluster size: two
\* places 2 m apart inside the height band, whose lists give clusters of
\* min_cluster_size - 1 and more points in either order
PairPts == {<<100, 0, 100>>, <<300, 0, 100>>}

\* n times the point p
Repeat(p, n) == [k \in 1..n |-> p]

\* lists with max_cluster_size and max_cluster_size + 1 points at one place,
\* alone and next to smaller clusters at two other places
SizeLimitInputs ==
    {Repeat(<<100, 0, 100>>, max_cluster_size),
     Repeat(<<100, 0, 100>>, max_cluster_size + 1),
     Repeat(<<300, 0, 100>>, min_cluster_size)
         \o Repeat(<<100, 0, 100>>, max_cluster_size),
     Repeat(<<300, 0, 100>>, min_cluster_size)
         \o Repeat(<<100, 0, 100>>, max_cluster_size + 1)
         \o Repeat(<<500, 0, 100>>, min_cluster_size + 1)}

\* a cluster of 20 points with extents (0.3, 0.3, 0.2), horizontal distance
\* 10 m and centroid height 2 m
Scenario20 ==
    [k \in 1..FullCount |-> IF k % 2 = 1 THEN <<985, -15, 190>> ELSE <<1015, 15, 210>>]

\* the three points (0,0,1), (0.1,0,1), (5,5,1)
Scenario3 == << <<0, 0, 100>>, <<10, 0, 100>>, <<500, 500, 100>> >>

\* inputs of calculate_confidence: point counts and extents
ConfCounts == {1, 3, FullCount, FullCount + 1}
ConfSizes == {0, 1, 30, 200, 1000}

SeqsUpTo(S, n) == UNION {[1..k -> S] : k \in 0..n}

\* a call: the function, its list of points, and the three extents handed
\* to calculate_confidence (zero for the other functions)
NoCall == [fn |-> "none", arg |-> <<>>, size |-> <<0, 0, 0>>]
Call(fn, arg) == [fn |-> fn, arg |-> arg, size |-> <<0, 0, 0>>]

DetInputs ==
    {Call("simple_clustering", q) : q \in SeqsUpTo(ClusterPts, MaxPoints)}
    \cup {Call("detect_objects", q) : q \in SeqsUpTo(DetectPts, MaxScan)}
    \cup {Call("detect_objects", q) : q \in SeqsUpTo(PairPts, MaxPair)}
    \cup {Call("detect_objects", q) : q \in SizeLimitInputs}
    \cup {Call("analyze_cluster", q) :
            q \in (SeqsUpTo(AnalyzePts, MaxCluster) \ {<<>>}) \cup {Scenario20}}
    \cup {[fn |-> "calculate_confidence", arg |-> [k \in 1..n |-> <<0, 0, 0>>],
            size |-> <<sx, sy, sz>>] :
            n \in ConfCounts, sx \in ConfSizes, sy \in ConfSizes, sz \in ConfSizes}

DetIdle == det_in = NoCall /\ det_out = None

CallSimpleClustering ==
    /\ det_in.fn = "simple_clustering" /\ det_out = None
    /\ det_out' = Some(simple_clustering(det_in.arg))
    /\ UNCHANGED det_in
    /\ UNCHANGED detAside

CallDetectObjects ==
    /\ det_in.fn = "detect_objects" /\ det_out = None
    /\ det_out' = Some(detect_objects(det_in.arg))
    /\ UNCHANGED det_in
    /\ UNCHANGED detAside

CallAnalyzeCluster ==
    /\ det_in.fn = "analyze_cluster" /\ det_out = None
    /\ det_out' = Some(analyze_cluster(det_in.arg))
    /\ UNCHANGED det_in
    /\ UNCHANGED detAside

CallCalculateConfidence ==
    /\ det_in.fn = "calculate_confidence" /\ det_out = None
    /\ det_out' = Some(calculate_confidence(det_in.arg, det_in.size[1],
                                            det_in.size[2], det_in.size[3]))
    /\ UNCHANGED det_in
    /\ UNCHANGED detAside

\* --------------------------------------------------- lidar_data_recorder.py
\* The socket of line 76 is never given a timeout, so recvfrom (line 248)
\* returns only with a datagram and the except of line 249 is never entered.
\* a max_scans no record() reaches
Unlimited == MaxRecv + 1

\* the datagrams a recorder is sent
RecDatagrams == {DgShort, DgUnknown, DgImu1, DgImuCut, DgScan0, DgScan2, DgScanCut}

\* line 108: a point as the list [x, y, z, intensity, time, ring]
PointRow(pt) == <<pt.x, pt.y, pt.z, pt.intensity, pt.time, pt.ring>>

\* process_scan_message, lines 96-120: the scan_info dictionary, or nothing
\* when a struct.unpack raises
ScanInfo(d, t) ==
    IF ~HasBytes(d, 24) THEN None
    ELSE LET r == UnpackPoints(d, 0, <<>>)
         IN  IF ~r.ok THEN None
             ELSE Some([timestamp |-> d.stamp, scan_id |-> d.id,
                        valid_points |-> d.validPointsNum,
                        points |-> [k \in 1..Len(r.points) |-> PointRow(r.points[k])],
                        system_time |-> t])

\* process_imu_message, lines 131-142: the imu_info dictionary, or nothing
\* when a struct.unpack raises
ImuInfo(d, t) ==
    IF ~(HasBytes(d, 8) /\ HasBytes(d, 8 + imu_data_size)) THEN None
    ELSE Some([timestamp |-> d.stamp, imu_id |-> d.id, quaternion |-> d.imu[1],
               angular_velocity |-> d.imu[2], linear_acceleration |-> d.imu[3],
               system_time |-> t])

\* LidarDataRecorder(max_scans=..., max_duration=...), lines 50-85
InitRecorder ==
    /\ rec_pc = "new"
    /\ max_scans \in 0..Unlimited
    /\ max_duration \in 1..MaxTime
    /\ scan_data = <<>>
    /\ imu_data = <<>>
    /\ scan_count = 0
    /\ imu_count = 0
    /\ start_time = None
    /\ sock_closed = FALSE
    /\ now = 1
    /\ received = 0
    /\ rec_stop = "none"
    /\ rec_ret = None
    /\ flushed = <<>>
    /\ calls = 0

\* no recorder is in use
RecIdle ==
    /\ rec_pc = "none"
    /\ max_scans = 0
    /\ max_duration = 0
    /\ scan_data = <<>>
    /\ imu_data = <<>>
    /\ scan_count = 0
    /\ imu_count = 0
    /\ start_time = None
    /\ sock_closed = FALSE
    /\ now = 1
    /\ received = 0
    /\ rec_stop = "none"
    /\ rec_ret = None
    /\ flushed = <<>>
    /\ calls = 0

\* the wall clock moves on while record() runs
Tick ==
    /\ rec_pc \in {"while", "recvfrom", "finally", "save"}
    /\ now < MaxTime
    /\ now' = now + 1
    /\ UNCHANGED <<rec_pc, max_scans, max_duration, scan_data, imu_data, scan_count,
                   imu_count, start_time, sock_closed, received, rec_stop, rec_ret,
                   flushed, calls>>
    /\ UNCHANGED recAside

\* record(), line 233: the first call, or a later call on the same recorder
RecordBegin ==
    /\ rec_pc \in {"new", "done"}
    /\ calls < MaxCalls
    /\ calls' = calls + 1
    /\ start_time' = Some(now)
    /\ rec_stop' = "none"
    /\ rec_ret' = None
    /\ rec_pc' = "while"
    /\ UNCHANGED <<max_scans, max_duration, scan_data, imu_data, scan_count, imu_count,
                   sock_closed, now, received, flushed>>
    /\ UNCHANGED recAside

\* variant of the loop head that stops only once the scan count is over
\* max_scans
LoopHeadOver ==
    /\ rec_pc = "while"
    /\ IF scan_count > max_scans
       THEN rec_stop' = "max_scans" /\ rec_pc' = "finally"
       ELSE IF now - start_time[1] >= max_duration
            THEN rec_stop' = "max_duration" /\ rec_pc' = "finally"
            ELSE rec_stop' = rec_stop /\ rec_pc' = "recvfrom"
    /\ UNCHANGED <<max_scans, max_duration, scan_data, imu_data, scan_count, imu_count,
                   start_time, sock_closed, now, received, rec_ret, flushed, calls>>
    /\ UNCHANGED recAside

\* record(), lines 236-248: the two stop conditions, then the call of
\* recvfrom
LoopHead ==
    /\ rec_pc = "while"
    /\ IF scan_count >= max_scans
       THEN rec_stop' = "max_scans" /\ rec_pc' = "finally"
       ELSE IF now - start_time[1] >= max_duration
            THEN rec_stop' = "max_duration" /\ rec_pc' = "finally"
            ELSE rec_stop' = rec_stop /\ rec_pc' = "recvfrom"
    /\ UNCHANGED <<max_scans, max_duration, scan_data, imu_data, scan_count, imu_count,
                   start_time, sock_closed, now, received, rec_ret, flushed, calls>>
    /\ UNCHANGED recAside

\* what record() does with datagram d, lines 253-260: "imu", "scan",
\* "skip", or "raise" when a struct.unpack raises (caught at line 264)
RecOutcome(d) ==
    IF ~HasBytes(d, 4) THEN "raise"
    ELSE IF d.mtype = MSG_IMU THEN (IF ImuInfo(d, 0) = None THEN "raise" ELSE "imu")
    ELSE IF d.mtype = MSG_SCAN THEN (IF ScanInfo(d, 0) = None THEN "raise" ELSE "scan")
    ELSE "skip"

\* record(), lines 248-260: recvfrom returns datagram d and it is handled
RecRecv(d) ==
    /\ rec_pc = "recvfrom"
    /\ ~sock_closed
    /\ received < MaxRecv
    /\ received' = received + 1
    /\ LET what == RecOutcome(d)
       IN  /\ scan_data' = IF what = "scan" THEN scan_data \o ScanInfo(d, now)
                           ELSE scan_data
           /\ scan_count' = IF what = "scan" THEN scan_count + 1 ELSE scan_count
           /\ imu_data' = IF what = "imu" THEN imu_data \o ImuInfo(d, now) ELSE imu_data
           /\ imu_count' = IF what = "imu" THEN imu_count + 1 ELSE imu_count
           /\ rec_stop' = IF what = "raise" THEN "error" ELSE rec_stop
           /\ rec_pc' = IF what = "raise" THEN "finally" ELSE "while"
    /\ UNCHANGED <<max_scans, max_duration, start_time, sock_closed, now, rec_ret, flushed, calls>>
    /\ UNCHANGED recAside

\* record(), line 248 in a later call: recvfrom on the socket that the
\* finally of the first call closed raises OSError, caught at line 264
RecRecvClosed ==
    /\ rec_pc = "recvfrom"
    /\ sock_closed
    /\ rec_stop' = "error"
    /\ rec_pc' = "finally"
    /\ UNCHANGED <<max_scans, max_duration, scan_data, imu_data, scan_count, imu_count,
                   start_time, sock_closed, now, received, rec_ret, flushed, calls>>
    /\ UNCHANGED recAside

\* record(), line 262: KeyboardInterrupt inside the try
RecInterrupt ==
    /\ rec_pc \in {"while", "recvfrom"}
    /\ rec_stop' = "interrupt"
    /\ rec_pc' = "finally"
    /\ UNCHANGED <<max_scans, max_duration, scan_data, imu_data, scan_count, imu_count,
                   start_time, sock_closed, now, received, rec_ret, flushed, calls>>
    /\ UNCHANGED recAside

\* variant of the except clause of line 264 that returns from record()
\* instead of falling through to save_data()
RecFinallyReturnsOnError ==
    /\ rec_pc = "finally"
    /\ sock_closed' = TRUE
    /\ rec_pc' = IF rec_stop = "error" THEN "done" ELSE "save"
    /\ UNCHANGED <<max_scans, max_duration, scan_data, imu_data, scan_count, imu_count,
                   start_time, now, received, rec_stop, rec_ret, flushed, calls>>
    /\ UNCHANGED recAside

\* record(), lines 266-267: finally, self.sock.close()
RecFinally ==
    /\ rec_pc = "finally"
    /\ sock_closed' = TRUE
    /\ rec_pc' = "save"
    /\ UNCHANGED <<max_scans, max_duration, scan_data, imu_data, scan_count, imu_count,
                   start_time, now, received, rec_stop, rec_ret, flushed, calls>>
    /\ UNCHANGED recAside

RECURSIVE Flatten(_)
Flatten(qq) == IF qq = <<>> THEN <<>> ELSE Head(qq) \o Flatten(Tail(qq))

\* np.array(points, dtype=np.float32) of line 111 as np.vstack (line 192)
\* sees it: the rows of a scan with points, one row of width 0 for a scan
\* without
Rows(scan) == IF scan.points = <<>> THEN << <<>> >> ELSE scan.points

\* np.vstack raises unless all the arrays have rows of one width
VstackRaises(sd) ==
    \E i, j \in 1..Len(sd) : (sd[i].points = <<>>) # (sd[j].points = <<>>)

\* variant of the scan arrays in which a point is given the number of its
\* scan counted from one
ScanArraysFromOne(sd) ==
    [scan_timestamps |-> [i \in 1..Len(sd) |-> sd[i].timestamp],
     scan_ids |-> [i \in 1..Len(sd) |-> sd[i].scan_id],
     scan_valid_points |-> [i \in 1..Len(sd) |-> sd[i].valid_points],
     scan_system_times |-> [i \in 1..Len(sd) |-> sd[i].system_time],
     points |-> Flatten([i \in 1..Len(sd) |-> Rows(sd[i])]),
     point_scan_indices |->
         Flatten([i \in 1..Len(sd) |-> [k \in 1..Len(sd[i].points) |-> i]])]

\* save_data, lines 176-202: the scan arrays of the archive
ScanArrays(sd) ==
    [scan_timestamps |-> [i \in 1..Len(sd) |-> sd[i].timestamp],
     scan_ids |-> [i \in 1..Len(sd) |-> sd[i].scan_id],
     scan_valid_points |-> [i \in 1..Len(sd) |-> sd[i].valid_points],
     scan_system_times |-> [i \in 1..Len(sd) |-> sd[i].system_time],
     points |-> Flatten([i \in 1..Len(sd) |-> Rows(sd[i])]),
     point_scan_indices |->
         Flatten([i \in 1..Len(sd) |-> [k \in 1..Len(sd[i].points) |-> i - 1]])]

\* save_data, lines 205-220: the IMU arrays of the archive
ImuArrays(id) ==
    [imu_timestamps |-> [i \in 1..Len(id) |-> id[i].timestamp],
     imu_ids |-> [i \in 1..Len(id) |-> id[i].imu_id],
     imu_system_times |-> [i \in 1..Len(id) |-> id[i].system_time],
     imu_quaternions |-> [i \in 1..Len(id) |-> id[i].quaternion],
     imu_angular_velocities |-> [i \in 1..Len(id) |-> id[i].angular_velocity],
     imu_linear_accelerations |-> [i \in 1..Len(id) |-> id[i].linear_acceleration]]

\* save_data, lines 151-228: what is written to the .npz file
save_data ==
    [recording_info |->
         [start_time |-> start_time, end_time |-> now, scan_count |-> scan_count,
          imu_count |-> imu_count,
          duration |-> IF start_time # None THEN now - start_time[1] ELSE 0],
     scans |-> IF scan_data # <<>> THEN Some(ScanArrays(scan_data)) ELSE None,
     imus |-> IF imu_data # <<>> THEN Some(ImuArrays(imu_data)) ELSE None]

\* the caller calls save_data() itself on a recorder whose record() is over
CallSaveData ==
    /\ rec_pc = "done"
    /\ calls < MaxCalls
    /\ calls' = calls + 1
    /\ rec_ret' = None
    /\ rec_pc' = "save"
    /\ UNCHANGED <<max_scans, max_duration, scan_data, imu_data, scan_count, imu_count,
                   start_time, sock_closed, now, received, rec_stop, flushed>>
    /\ UNCHANGED recAside

\* save_data() writes a file: nothing is held back and np.vstack accepts
\* the scans
Writes == ~(scan_data = <<>> /\ imu_data = <<>>) /\ ~VstackRaises(scan_data)

\* record(), lines 270-271: save_data() returns None (nothing to save) or
\* the file it wrote, or np.vstack raises out of record()
RecSave ==
    /\ rec_pc = "save"
    /\ flushed' = IF Writes THEN Append(flushed, save_data) ELSE flushed
    /\ rec_ret' =
          IF scan_data = <<>> /\ imu_data = <<>>
          THEN Some([raised |-> FALSE, file |-> None])
          ELSE IF VstackRaises(scan_data)
               THEN Some([raised |-> TRUE, file |-> None])
               ELSE Some([raised |-> FALSE, file |-> Some(save_data)])
    /\ rec_pc' = "done"
    /\ UNCHANGED <<max_scans, max_duration, scan_data, imu_data, scan_count, imu_count,
                   start_time, sock_closed, now, received, rec_stop, calls>>
    /\ UNCHANGED recAside

\* variant of the failing save_data that drops the buffers it could not
\* write
RecSaveFailsClears ==
    /\ rec_pc = "save"
    /\ Writes
    /\ rec_ret' = Some([raised |-> TRUE, file |-> None])
    /\ rec_pc' = "done"
    /\ scan_data' = <<>>
    /\ imu_data' = <<>>
    /\ scan_count' = 0
    /\ imu_count' = 0
    /\ UNCHANGED <<max_scans, max_duration, start_time, sock_closed, now, received,
                   rec_stop, flushed, calls>>
    /\ UNCHANGED recAside

\* save_data, line 223: np.savez_compressed raises (the file cannot be
\* written)
RecSaveFails ==
    /\ rec_pc = "save"
    /\ Writes
    /\ rec_ret' = Some([raised |-> TRUE, file |-> None])
    /\ rec_pc' = "done"
    /\ UNCHANGED <<max_scans, max_duration, scan_data, imu_data, scan_count, imu_count,
                   start_time, sock_closed, now, received, rec_stop, flushed, calls>>
    /\ UNCHANGED recAside

\* ------------------------------------------------------------ the wire
\* The bytes of a datagram as the items struct.pack laid down, in order:
\* <<"I", v>> a u32, <<"f", v>> an f32 (4 bytes each), <<"d", v>> an f64
\* (8 bytes).  All formats are "=": native order, no padding.
ItemSize(it) == IF it[1] = "d" THEN 8 ELSE 4
Offset(w, j) == SeqSum([i \in 1..(j - 1) |-> ItemSize(w[i])])
Total(w) == Offset(w, Len(w) + 1)

\* struct.unpack("=" + c, data[off : off + size])[0] where the slice is
\* whole: the value packed there, or, when the bytes at off are not an
\* item of format c, some other value
At(w, off, c) ==
    IF \E j \in 1..Len(w) : Offset(w, j) = off /\ w[j][1] = c
    THEN w[CHOOSE j \in 1..Len(w) : Offset(w, j) = off /\ w[j][1] = c][2]
    ELSE 0 - 1

\* "=fffffI" of one point
PointItems(row) ==
    << <<"f", row[1]>>, <<"f", row[2]>>, <<"f", row[3]>>, <<"f", row[4]>>,
       <<"f", row[5]>>, <<"I", row[6]>> >>

\* the messages of the wire format, as the decoders slice them: type at 0,
\* declared length at 4, stamp at 8, id at 16, then valid_count at 20 and
\* the point records from 24 (scan) or the ten floats from 20 (IMU)
ScanWire(length, stamp, id, n, pts) ==
    << <<"I", MSG_SCAN>>, <<"I", length>>, <<"d", stamp>>, <<"I", id>>, <<"I", n>> >>
        \o Flatten([i \in 1..Len(pts) |-> PointItems(PointRow(pts[i]))])
ImuWire(length, stamp, id, body) ==
    << <<"I", MSG_IMU>>, <<"I", length>>, <<"d", stamp>>, <<"I", id>> >>
        \o [i \in 1..10 |-> <<"f", Flatten(body)[i]>>]

\* a message cut short by its last item, and one with four bytes more
CutShort(w) == SubSeq(w, 1, Len(w) - 1)
Trailed(w) == Append(w, <<"I", 0>>)

ImuBodyB == << <<0, 1, 0, 0>>, <<1, 2, 3>>, <<0, 0, 0>> >>

\* the messages sent: scans whose valid_count and declared length agree
\* with the points carried or do not, IMU samples, a message of unknown
\* type, each also cut short and with trailing bytes
WholeWires ==
    {ScanWire(k * (16 + point_size * Len(pts)), 10, id, n, pts) :
        k \in {0, 1}, id \in {1, 2}, n \in 0..MaxWirePoints,
        pts \in SeqsUpTo({PA, PB}, MaxWirePoints)}
    \cup {ImuWire(L, 20, id, body) :
            L \in {48, imu_data_size}, id \in {1, 2}, body \in {ImuBody, ImuBodyB}}
    \cup {<< <<"I", 999>>, <<"I", 0>> >>}
Wires == WholeWires \cup {CutShort(w) : w \in WholeWires} \cup {Trailed(w) : w \in WholeWires}

\* the datagram the decoders see in bytes w: each field is what the slice
\* at its offset holds, points the whole point records from byte 24 on
FromWire(w) ==
    LET size == Total(w)
        mtype == At(w, 0, "I")
        k == IF size >= 24 /\ mtype = MSG_SCAN THEN (size - 24) \div point_size ELSE 0
        pt(i) == PointUnitree(At(w, 24 + point_size * i, "f"),
                              At(w, 24 + point_size * i + 4, "f"),
                              At(w, 24 + point_size * i + 8, "f"),
                              At(w, 24 + point_size * i + 12, "f"),
                              At(w, 24 + point_size * i + 16, "f"),
                              At(w, 24 + point_size * i + 20, "I"))
        fl(off) == At(w, off, "f")
    IN  Datagram(size, mtype, At(w, 4, "I"), At(w, 8, "d"), At(w, 16, "I"),
                 IF mtype = MSG_SCAN THEN At(w, 20, "I") ELSE 0,
                 [i \in 1..k |-> pt(i - 1)],
                 IF mtype = MSG_IMU /\ size >= 8 + imu_data_size
                 THEN << <<fl(20), fl(24), fl(28), fl(32)>>, <<fl(36), fl(40), fl(44)>>,
                         <<fl(48), fl(52), fl(56)>> >>
                 ELSE <<>>)

\* lidar_udp_receiver.py lines 170-177: what the receive loop makes of a
\* datagram, and the record it would publish
DecodeReceiver(d) ==
    IF ~HasBytes(d, 4) THEN [kind |-> "raise", scan |-> None, imu |-> None]
    ELSE IF d.mtype = MSG_IMU THEN [kind |-> "imu", scan |-> None, imu |-> ParseImu(d)]
    ELSE IF d.mtype = MSG_SCAN
         THEN [kind |-> "scan",
               scan |-> IF ParseScan(d) = None THEN None ELSE Some(ParseScan(d)[1].scan),
               imu |-> None]
    ELSE [kind |-> "unknown", scan |-> None, imu |-> None]

\* lidar_data_recorder.py lines 253-260: what record() makes of it, and
\* the dictionary it would append
DecodeRecorder(d) ==
    [kind |-> RecOutcome(d),
     scan |-> IF RecOutcome(d) = "scan" THEN ScanInfo(d, 0) ELSE None,
     imu |-> IF RecOutcome(d) = "imu" THEN ImuInfo(d, 0) ELSE None]

\* mock_udp_publisher.py line 85
header_size == 16

\* variant of send_scan_message whose msg_length counts the eight bytes of
\* type and length as well
send_scan_message_whole(timestamp, scan_id, num_points, points) ==
    << <<"I", MSG_SCAN>>, <<"I", 8 + header_size + num_points * point_size>> >>
        \o << <<"d", timestamp>>, <<"I", scan_id>>, <<"I", num_points>> >>
        \o Flatten([i \in 1..Len(points) |-> PointItems(points[i])])

\* send_scan_message, lines 80-94: struct.pack("=II", ...), "=dII", then
\* "=fffffI" for each point
send_scan_message(timestamp, scan_id, num_points, points) ==
    << <<"I", MSG_SCAN>>, <<"I", header_size + num_points * point_size>> >>
        \o << <<"d", timestamp>>, <<"I", scan_id>>, <<"I", num_points>> >>
        \o Flatten([i \in 1..Len(points) |-> PointItems(points[i])])

\* send_imu_message, lines 105-115: "=II", then "=dI4f3f3f"
send_imu_message(timestamp, imu_id, quaternion, angular_velocity, linear_acceleration) ==
    << <<"I", MSG_IMU>>, <<"I", imu_data_size>> >>
        \o << <<"d", timestamp>>, <<"I", imu_id>> >>
        \o [i \in 1..4 |-> <<"f", quaternion[i]>>]
        \o [i \in 1..3 |-> <<"f", angular_velocity[i]>>]
        \o [i \in 1..3 |-> <<"f", linear_acceleration[i]>>]

NoDecode == [kind |-> "none", scan |-> None, imu |-> None]

\* no message is being followed
CodecIdle ==
    /\ codec_pc = "none"
    /\ codec_in = <<>>
    /\ codec_dec = [recv |-> NoDecode, rec |-> NoDecode]
    /\ codec_out = <<>>

\* a message has arrived
InitCodec ==
    /\ codec_pc = "in"
    /\ codec_in \in Wires
    /\ codec_dec = [recv |-> NoDecode, rec |-> NoDecode]
    /\ codec_out = <<>>

\* the receiver and the recorder decode the message
CodecDecode ==
    /\ codec_pc = "in"
    /\ codec_dec' = [recv |-> DecodeReceiver(FromWire(codec_in)),
                     rec |-> DecodeRecorder(FromWire(codec_in))]
    /\ codec_pc' = "decoded"
    /\ UNCHANGED <<codec_in, codec_out>>
    /\ UNCHANGED codecAside

\* the publisher packs the ScanUnitree the receiver decoded
CodecEncodeScan ==
    /\ codec_pc = "decoded"
    /\ codec_dec.recv.scan # None
    /\ LET m == codec_dec.recv.scan[1]
       IN  codec_out' = send_scan_message(m.stamp, m.id, m.validPointsNum,
                                          [i \in 1..Len(m.points) |-> PointRow(m.points[i])])
    /\ codec_pc' = "encoded"
    /\ UNCHANGED <<codec_in, codec_dec>>
    /\ UNCHANGED codecAside

\* the publisher packs the IMUUnitree the receiver decoded
CodecEncodeImu ==
    /\ codec_pc = "decoded"
    /\ codec_dec.recv.imu # None
    /\ LET m == codec_dec.recv.imu[1]
       IN  codec_out' = send_imu_message(m.stamp, m.id, m.quaternion, m.angular_velocity,
                                         m.linear_acceleration)
    /\ codec_pc' = "encoded"
    /\ UNCHANGED <<codec_in, codec_dec>>
    /\ UNCHANGED codecAside

\* ------------------------------------------------- config.py, configure.py
\* values handed to set_confidence: a float (argparse, type=float) or the
\* word typed after "confidence" in the interactive mode.  float(value) of
\* a word is a number, nan, or a ValueError; v is in hundredths.
Num(v) == [kind |-> "num", v |-> v]
NaN == [kind |-> "nan", v |-> 0]
Word == [kind |-> "word", v |-> 0]
ConfidenceValues == {Num(v) : v \in {-1, 0, 30, 49, 50, 100, 101}} \cup {NaN, Word}

\* the keys of the presets dictionary of apply_preset, and names that are
\* no key of it
PresetKeys == {"high", "balanced", "sensitive", "debug"}
PresetNames == PresetKeys \cup {"high_precision", "fast"}

NoCfgCall == [op |-> "none", arg |-> "", value |-> Word, ret |-> FALSE]

\* config.py, lines 8, 29-32: the class attributes as the module defines them
CfgDefault ==
    /\ CONFIDENCE_THRESHOLD = 0
    /\ QUIET_MODE = FALSE
    /\ SHOW_NON_DRONE_TARGETS = TRUE
    /\ SHOW_LOW_CONFIDENCE = TRUE

CfgIdle == CfgDefault /\ cfg_ret = NoCfgCall /\ filtered_targets = <<>>

\* QuickPresets.high_precision, lines 38-43
high_precision ==
    /\ CONFIDENCE_THRESHOLD' = 50
    /\ QUIET_MODE' = TRUE
    /\ SHOW_NON_DRONE_TARGETS' = FALSE
    /\ UNCHANGED SHOW_LOW_CONFIDENCE

\* QuickPresets.balanced, lines 45-50
balanced ==
    /\ CONFIDENCE_THRESHOLD' = 30
    /\ QUIET_MODE' = TRUE
    /\ SHOW_NON_DRONE_TARGETS' = FALSE
    /\ UNCHANGED SHOW_LOW_CONFIDENCE

\* QuickPresets.sensitive, lines 52-57
sensitive ==
    /\ CONFIDENCE_THRESHOLD' = 20
    /\ QUIET_MODE' = FALSE
    /\ SHOW_NON_DRONE_TARGETS' = TRUE
    /\ UNCHANGED SHOW_LOW_CONFIDENCE

\* QuickPresets.debug, lines 59-65
debug ==
    /\ CONFIDENCE_THRESHOLD' = 0
    /\ QUIET_MODE' = FALSE
    /\ SHOW_NON_DRONE_TARGETS' = TRUE
    /\ SHOW_LOW_CONFIDENCE' = TRUE

\* configure.py, apply_preset, lines 23-39
apply_preset(preset_name) ==
    /\ IF preset_name \in PresetKeys
       THEN /\ CASE preset_name = "high" -> high_precision
                 [] preset_name = "balanced" -> balanced
                 [] preset_name = "sensitive" -> sensitive
                 [] preset_name = "debug" -> debug
            /\ cfg_ret' = [op |-> "apply_preset", arg |-> preset_name, value |-> Word,
                           ret |-> TRUE]
       ELSE /\ UNCHANGED DetectionConfig
            /\ cfg_ret' = [op |-> "apply_preset", arg |-> preset_name, value |-> Word,
                           ret |-> FALSE]
    /\ UNCHANGED filtered_targets
    /\ UNCHANGED cfgAside

\* variant of set_confidence without the test of the range
set_confidence_unchecked(value) ==
    /\ IF value.kind = "num"
       THEN /\ CONFIDENCE_THRESHOLD' = value.v
            /\ cfg_ret' = [op |-> "set_confidence", arg |-> "", value |-> value,
                           ret |-> TRUE]
       ELSE /\ UNCHANGED CONFIDENCE_THRESHOLD
            /\ cfg_ret' = [op |-> "set_confidence", arg |-> "", value |-> value,
                           ret |-> FALSE]
    /\ UNCHANGED <<QUIET_MODE, SHOW_NON_DRONE_TARGETS, SHOW_LOW_CONFIDENCE>>
    /\ UNCHANGED filtered_targets
    /\ UNCHANGED cfgAside

\* configure.py, set_confidence, lines 41-54: a word raises ValueError in
\* float(), and nan fails both comparisons of line 45
set_confidence(value) ==
    /\ IF value.kind = "num" /\ 0 <= value.v /\ value.v <= 100
       THEN /\ CONFIDENCE_THRESHOLD' = value.v
            /\ cfg_ret' = [op |-> "set_confidence", arg |-> "", value |-> value,
                           ret |-> TRUE]
       ELSE /\ UNCHANGED CONFIDENCE_THRESHOLD
            /\ cfg_ret' = [op |-> "set_confidence", arg |-> "", value |-> value,
                           ret |-> FALSE]
    /\ UNCHANGED <<QUIET_MODE, SHOW_NON_DRONE_TARGETS, SHOW_LOW_CONFIDENCE>>
    /\ UNCHANGED filtered_targets
    /\ UNCHANGED cfgAside

\* the objects handed to the display filter: is_drone_like and the
\* confidence in hundredths, on and next to the threshold of high_precision
Targets == [is_drone_like : BOOLEAN, confidence : {49, 50}]
TargetLists == UNION {[1..n -> Targets] : n \in 0..MaxTargets}

\* simple_drone_detector.py, main, lines 179-186
show_target(obj) ==
    IF obj.is_drone_like /\ obj.confidence >= CONFIDENCE_THRESHOLD THEN TRUE
    ELSE IF SHOW_NON_DRONE_TARGETS /\ ~obj.is_drone_like THEN TRUE
    ELSE IF SHOW_LOW_CONFIDENCE /\ obj.confidence < CONFIDENCE_THRESHOLD THEN TRUE
    ELSE FALSE

\* simple_drone_detector.py, main, lines 175-189: one pass of the filter
\* over detected_objects
DisplayFilter(detected_objects) ==
    /\ filtered_targets' = SelectSeq(detected_objects, show_target)
    /\ UNCHANGED <<DetectionConfig, cfg_ret>>
    /\ UNCHANGED cfgAside

\* ------------------------------------------------------------------ main.py
\* LidarSystem.__init__, lines 16-19; no child has been spawned
InitSystem ==
    /\ run_pc = "new"
    /\ publisher_process = FALSE
    /\ detector_process = FALSE
    /\ publisher_child = "absent"
    /\ detector_child = "absent"
    /\ sys_running = FALSE
    /\ stop_then = "none"
    /\ signals = 0
    /\ run_ret = "none"

\* no launcher is in use
SysIdle ==
    /\ run_pc = "none"
    /\ publisher_process = FALSE
    /\ detector_process = FALSE
    /\ publisher_child = "absent"
    /\ detector_child = "absent"
    /\ sys_running = FALSE
    /\ stop_then = "none"
    /\ signals = 0
    /\ run_ret = "none"

\* run(), lines 179-188: check_prerequisites() fails and run() returns
\* False, or it passes and the two signal handlers are installed
CheckPrerequisites(ok) ==
    /\ run_pc = "new"
    /\ IF ok THEN run_pc' = "start_publisher" /\ run_ret' = run_ret
             ELSE run_pc' = "done" /\ run_ret' = "False"
    /\ UNCHANGED <<publisher_process, detector_process, childVars, sys_running,
                   stop_then, signals>>
    /\ UNCHANGED sysAside

\* start_publisher, lines 76-85 and 99-101: subprocess.Popen spawns the
\* child, or raises and start_publisher returns False (run() line 193, a
\* return inside the try)
PublisherPopen(spawned) ==
    /\ run_pc = "start_publisher"
    /\ IF spawned
       THEN publisher_child' = "alive" /\ run_pc' = "publisher_store" /\ run_ret' = run_ret
       ELSE publisher_child' = publisher_child /\ run_pc' = "finally" /\ run_ret' = "False"
    /\ UNCHANGED <<publisher_process, detector_process, detector_child, sys_running,
                   stop_then, signals>>
    /\ UNCHANGED sysAside

\* start_publisher, line 78: the Popen object is assigned to
\* self.publisher_process once Popen() has returned
PublisherStore ==
    /\ run_pc = "publisher_store"
    /\ publisher_process' = TRUE
    /\ run_pc' = "publisher_sleep"
    /\ UNCHANGED <<detector_process, childVars, sys_running, stop_then, signals, run_ret>>
    /\ UNCHANGED sysAside

\* start_publisher, lines 89-97, and run(), lines 192-193: after the sleep
\* poll() is None (alive) or the child has gone
PublisherPoll ==
    /\ run_pc = "publisher_sleep"
    /\ IF publisher_child = "alive"
       THEN run_pc' = "start_detector" /\ run_ret' = run_ret
       ELSE run_pc' = "finally" /\ run_ret' = "False"
    /\ UNCHANGED <<publisher_process, detector_process, childVars, sys_running,
                   stop_then, signals>>
    /\ UNCHANGED sysAside

\* start_detector, lines 107-116 and 121-123: subprocess.Popen spawns the
\* child, or raises and run() calls stop_all() at line 197
DetectorPopen(spawned) ==
    /\ run_pc = "start_detector"
    /\ IF spawned
       THEN detector_child' = "alive" /\ run_pc' = "detector_store"
       ELSE detector_child' = detector_child /\ run_pc' = "stop_failed"
    /\ UNCHANGED <<publisher_process, detector_process, publisher_child, sys_running,
                   stop_then, signals, run_ret>>
    /\ UNCHANGED sysAside

\* start_detector, line 109, and run(), line 200: the Popen object is
\* assigned to self.detector_process, then self.running = True
DetectorStore ==
    /\ run_pc = "detector_store"
    /\ detector_process' = TRUE
    /\ sys_running' = TRUE
    /\ run_pc' = "loop"
    /\ UNCHANGED <<publisher_process, childVars, stop_then, signals, run_ret>>
    /\ UNCHANGED sysAside

\* run(), lines 210-220: a pass of the main loop that finds a child gone
\* breaks; a pass that finds both alive sleeps and changes nothing
MainLoopBreaks ==
    /\ run_pc = "loop"
    /\ publisher_child # "alive" \/ detector_child # "alive"
    /\ run_pc' = "finally"
    /\ run_ret' = "True"
    /\ UNCHANGED <<publisher_process, detector_process, childVars, sys_running,
                   stop_then, signals>>
    /\ UNCHANGED sysAside

\* run(), lines 224-225: an exception in monitor_processes() or in the loop
RunException ==
    /\ run_pc = "loop"
    /\ run_pc' = "finally"
    /\ run_ret' = "True"
    /\ UNCHANGED <<publisher_process, detector_process, childVars, sys_running,
                   stop_then, signals>>
    /\ UNCHANGED sysAside

\* stop_all, lines 151-152, called at line 197 or from the finally clause
StopAllBegin ==
    /\ run_pc \in {"stop_failed", "finally"}
    /\ sys_running' = FALSE
    /\ stop_then' = IF run_pc = "stop_failed" THEN "finally" ELSE "done"
    /\ run_ret' = IF run_pc = "stop_failed" THEN "False" ELSE run_ret
    /\ run_pc' = "stop_det"
    /\ UNCHANGED <<publisher_process, detector_process, childVars, signals>>
    /\ UNCHANGED sysAside

\* what terminate(), wait(timeout=5) and, when that raises, kill() make
\* of a child: an alive child is terminated, another stays as it is
Stopped(process, child) == IF process /\ child = "alive" THEN "terminated" ELSE child

\* stop_all, lines 154-161: if self.detector_process
StopDetector ==
    /\ run_pc = "stop_det"
    /\ detector_child' = Stopped(detector_process, detector_child)
    /\ run_pc' = "stop_pub"
    /\ UNCHANGED <<publisher_process, detector_process, publisher_child, sys_running,
                   stop_then, signals, run_ret>>
    /\ UNCHANGED sysAside

\* stop_all, lines 163-170: if self.publisher_process; then stop_all
\* returns to line 198 (return False, through the finally clause) or run()
\* returns
StopPublisher ==
    /\ run_pc = "stop_pub"
    /\ publisher_child' = Stopped(publisher_process, publisher_child)
    /\ run_pc' = stop_then
    /\ stop_then' = "none"
    /\ UNCHANGED <<publisher_process, detector_process, detector_child, sys_running,
                   signals, run_ret>>
    /\ UNCHANGED sysAside

\* run() is inside its try statement, lines 190-220
InTry ==
    \/ run_pc \in {"start_publisher", "publisher_store", "publisher_sleep",
                    "start_detector", "detector_store", "loop", "stop_failed"}
    \/ run_pc \in {"stop_det", "stop_pub"} /\ stop_then = "finally"

\* run(), lines 183-188: SIGINT or SIGTERM arrives between two bytecodes of
\* the main thread; signal_handler runs stop_all() to its end (detector
\* first), then sys.exit(0) raises SystemExit where the main thread was:
\* inside the try it leads to the finally clause, inside the finally
\* clause it leaves run(), unless one of the bare excepts of stop_all
\* swallows it
Signal(swallowed) ==
    /\ InTry \/ run_pc = "finally" \/ (run_pc \in {"stop_det", "stop_pub"} /\ stop_then = "done")
    /\ signals < MaxSignals
    /\ signals' = signals + 1
    /\ sys_running' = FALSE
    /\ detector_child' = Stopped(detector_process, detector_child)
    /\ publisher_child' = Stopped(publisher_process, publisher_child)
    /\ IF InTry
       THEN run_pc' = "finally" /\ stop_then' = "none" /\ run_ret' = "exit"
       ELSE IF swallowed /\ run_pc # "finally"
            THEN UNCHANGED <<run_pc, stop_then, run_ret>>
            ELSE run_pc' = "done" /\ stop_then' = "none" /\ run_ret' = "exit"
    /\ UNCHANGED <<publisher_process, detector_process>>
    /\ UNCHANGED sysAside

\* a child process ends by itself
PublisherExits ==
    /\ run_pc \notin {"none", "done"}
    /\ publisher_child = "alive"
    /\ publisher_child' = "exited"
    /\ UNCHANGED <<run_pc, publisher_process, detector_process, detector_child,
                   sys_running, stop_then, signals, run_ret>>
    /\ UNCHANGED sysAside

DetectorExits ==
    /\ run_pc \notin {"none", "done"}
    /\ detector_child = "alive"
    /\ detector_child' = "exited"
    /\ UNCHANGED <<run_pc, publisher_process, detector_process, publisher_child,
                   sys_running, stop_then, signals, run_ret>>
    /\ UNCHANGED sysAside

\* ----------------------------------------------------------- specifications
\* the owner's calls
Owner(limit) ==
    \/ ConnectNoSocket
    \/ ConnectCreate
    \/ ConnectBind
    \/ ConnectBindFail
    \/ ConnectSetTimeout
    \/ StartStreaming(limit)
    \/ StopBegin
    \/ StopJoin

\* the steps of the receive threads after a datagram is in hand, or none is
Loop ==
    \/ \E a \in Actors : LoopTest(a)
    \/ \E a \in Actors : ReceiveTimeout(a)
    \/ \E a \in Actors : ReceiveError(a)
    \/ \E a \in Actors : PublishImu(a)
    \/ \E a \in Actors : PublishScan(a)
    \/ \E a \in Actors : PublishCloud(a)

\* The receiver with its owner and its receive threads, the arrivals noted
Next ==
    \/ Owner(MaxThreads)
    \/ Loop
    \/ \E a \in Actors : \E d \in Datagrams : ReceiveNoted(a, d)

\* the receiver alone: nothing else is in use
InitReceiver == Init /\ DetIdle /\ RecIdle /\ CodecIdle /\ CfgIdle /\ SysIdle
Spec == InitReceiver /\ [][Next]_allVars

\* The receiver with its owner, its receive threads and a polling reader
NextPoll ==
    \/ Owner(PollThreads)
    \/ Loop
    \/ \E a \in Actors : \E d \in Datagrams : Receive(a, d)
    \/ get_latest_scan
    \/ get_latest_imu
    \/ get_latest_raw_data

SpecPoll == InitReceiver /\ [][NextPoll]_allVars

\* The receiver with its owner, its receive threads and a reader that polls
\* get_latest_scan, the order of arrival kept
NextOrder ==
    \/ Owner(MaxThreads)
    \/ Loop
    \/ \E a \in Actors : \E d \in OrderDatagrams : ReceiveInOrder(a, d)
    \/ get_latest_scan

SpecOrder == InitReceiver /\ [][NextOrder]_allVars

\* the detector's functions, each applied to one input
NextDetect ==
    \/ CallSimpleClustering
    \/ CallDetectObjects
    \/ CallAnalyzeCluster
    \/ CallCalculateConfidence
InitDetect ==
    Init /\ det_in \in DetInputs /\ det_out = None /\ RecIdle /\ CodecIdle /\ CfgIdle
         /\ SysIdle
SpecDetect == InitDetect /\ [][NextDetect]_allVars

\* the recorder: the steps record() takes by itself, and what reaches it
RecorderStep ==
    \/ RecRecvClosed
    \/ RecordBegin
    \/ LoopHead
    \/ RecFinally
    \/ RecSave
NextRecord ==
    \/ RecorderStep
    \/ Tick
    \/ \E d \in RecDatagrams : RecRecv(d)
    \/ RecInterrupt
    \/ RecSaveFails
    \/ CallSaveData
InitRecord == Init /\ DetIdle /\ InitRecorder /\ CodecIdle /\ CfgIdle /\ SysIdle
SpecRecord == InitRecord /\ [][NextRecord]_allVars
\* record() keeps running and the clock keeps moving; nothing obliges a
\* datagram to arrive
SpecRecordFair ==
    InitRecord /\ [][NextRecord]_allVars /\ WF_allVars(RecorderStep) /\ WF_allVars(Tick)

\* One process runs the receiver or the recorder, never both: each binds
\* UDP port 12345 and neither sets SO_REUSEADDR.
ReceiverInUse == rec_pc = "none" /\ NextPoll
NextFrames ==
    \/ ReceiverInUse
    \/ NextRecord
InitFrames == InitReceiver \/ InitRecord
SpecFrames == InitFrames /\ [][NextFrames]_allVars

\* one message decoded by both decoders and packed again by the publisher
NextCodec ==
    \/ CodecDecode
    \/ CodecEncodeScan
    \/ CodecEncodeImu
InitWire == Init /\ DetIdle /\ RecIdle /\ InitCodec /\ CfgIdle /\ SysIdle
SpecCodec == InitWire /\ [][NextCodec]_allVars

\* the configuration tool and the display filter in one process
NextConfig ==
    \/ \E preset_name \in PresetNames : apply_preset(preset_name)
    \/ \E value \in ConfidenceValues : set_confidence(value)
    \/ \E detected_objects \in TargetLists : DisplayFilter(detected_objects)
InitConfig ==
    Init /\ DetIdle /\ RecIdle /\ CodecIdle /\ CfgDefault /\ cfg_ret = NoCfgCall
         /\ filtered_targets = <<>> /\ SysIdle
SpecConfig == InitConfig /\ [][NextConfig]_allVars

\* one run() of the launcher with its two children
NextSystem ==
    \/ \E ok \in BOOLEAN : CheckPrerequisites(ok)
    \/ \E spawned \in BOOLEAN : PublisherPopen(spawned)
    \/ PublisherStore
    \/ PublisherPoll
    \/ \E spawned \in BOOLEAN : DetectorPopen(spawned)
    \/ DetectorStore
    \/ MainLoopBreaks
    \/ RunException
    \/ StopAllBegin
    \/ StopDetector
    \/ StopPublisher
    \/ \E swallowed \in BOOLEAN : Signal(swallowed)
    \/ PublisherExits
    \/ DetectorExits
InitSystemRun == Init /\ DetIdle /\ RecIdle /\ CodecIdle /\ CfgIdle /\ InitSystem
SpecSystem == InitSystemRun /\ [][NextSystem]_allVars

\* ------------------------------------------------------------------- claims
\* A datagram is well formed when it has the bytes its field layout asks
\* for: 8 + imu_data_size for an IMU message, 24 + point_size*valid_count
\* for a scan.
WellFormed(d) ==
    \/ d.mtype = MSG_IMU /\ d.size >= 8 + imu_data_size
    \/ d.mtype = MSG_SCAN /\ d.size >= 24 /\ d.size >= 24 + point_size * d.validPointsNum

\* what a well-formed datagram says
ScanOf(d) ==
    ScanUnitree(d.stamp, d.id, d.validPointsNum, SubSeq(d.points, 1, d.validPointsNum))
ImuOf(d) == IMUUnitree(d.stamp, d.id, d.imu[1], d.imu[2], d.imu[3])

WellFormedScans == {d \in Datagrams : d.mtype = MSG_SCAN /\ WellFormed(d)}
WellFormedImus == {d \in Datagrams : d.mtype = MSG_IMU /\ WellFormed(d)}

\* C1: no datagram, whatever its content, ends the receive loop: after a
\* thread has taken a datagram from recvfrom and dealt with it, the thread
\* is still alive.
C1_NoDatagramEndsLoop ==
    [][\A a \in Actors : \A d \in Datagrams : ReceiveNoted(a, d) => NumLive' = NumLive]_vars

\* C2: a datagram that carries a message type and fails to decode (unknown
\* type, or too few bytes for its layout) leaves the three slots as they
\* were and the thread in its loop; the slots only ever change to the
\* decoded form of a well-formed datagram.
C2_DecodeFailureIsolated ==
    [][/\ \A a \in Actors : \A d \in Datagrams :
            (HasBytes(d, 4) /\ ~WellFormed(d) /\ Receive(a, d))
                => (slots' = slots /\ Becomes(a, Skipped))
       /\ latest_scan' # latest_scan
            => \E d \in WellFormedScans : latest_scan' = Some(ScanOf(d))
       /\ latest_point_cloud' # latest_point_cloud
            => \E d \in WellFormedScans :
                  /\ latest_point_cloud'[1].timestamp = d.stamp
                  /\ Len(latest_point_cloud'[1].points) = d.validPointsNum
       /\ latest_imu' # latest_imu
            => \E d \in WellFormedImus : latest_imu' = Some(ImuOf(d))]_vars

\* a thread has just skipped a datagram while all three slots hold a frame
C2_Witness ==
    /\ latest_scan # None /\ latest_imu # None /\ latest_point_cloud # None
    /\ \E r \in Live : r.pc = "while" /\ r.note = "skipped"

\* C3: start_streaming() returns True (and spawns a thread) only when the
\* most recent connect() returned True; it returns False when connect()
\* was never called or the most recent one returned False.
C3_StartNeedsConnect ==
    [][StartStreaming(MaxThreads) => (StartReturns <=> lastConnect = "ok")]_vars

\* C4: a connect() whose bind fails leaves self.socket as it was when the
\* call was entered.
C4_BindFailureLeavesNoSocket ==
    [][ConnectBindFail => self_socket' = preSocket]_vars

\* C5: when recvfrom raises a hard error the loop ends and self.running no
\* longer says that a loop is running.
C5_SocketErrorStopsService ==
    [][\A a \in Actors : ReceiveError(a) => (NumLive' < NumLive /\ ~running')]_vars

\* C6: when stop_streaming() returns, the receive thread is not alive and
\* the socket (if there is one) is closed.
C6_StopJoinsAndCloses ==
    [][StopJoin => /\ thread' = None \/ ~Alive(thread'[1])
                   /\ self_socket' = None \/ self_socket'[1].closed]_vars

\* C7: every receive a running loop is blocked in has a timeout.
C7_ReceiveIsBounded ==
    \A r \in Live : r.pc = "recvfrom" => r.tmo

\* no thread holds a decoded message it has not published yet
Quiescent == \A r \in Live : r.pc \notin {"imu_lock", "scan_lock", "scan_cloud"}

\* C8: once the datagrams received so far are dealt with, latest_scan is
\* the last scan received that decodes and latest_imu the last such IMU.
C8_LastWriterWins ==
    Quiescent => (latest_scan = scanIn /\ latest_imu = imuIn)

\* complete records
CompleteScan(m) == Len(m.points) = m.validPointsNum
CompleteImu(m) ==
    Len(m.quaternion) = 4 /\ Len(m.angular_velocity) = 3 /\ Len(m.linear_acceleration) = 3
CompleteCloud(c) ==
    /\ Len(c.points) = Len(c.intensities)
    /\ \A i \in 1..Len(c.points) : Len(c.points[i]) = 3

\* C9: what a getter returns is nothing or a complete record, and it is
\* the record of a well-formed datagram as a whole.
C9_ReaderSeesWholeRecords ==
    /\ got.op = "get_latest_scan" /\ got.val # None
         => CompleteScan(got.val[1]) /\ \E d \in WellFormedScans : got.val[1] = ScanOf(d)
    /\ got.op = "get_latest_imu" /\ got.val # None
         => CompleteImu(got.val[1]) /\ \E d \in WellFormedImus : got.val[1] = ImuOf(d)
    /\ got.op = "get_latest_raw_data" /\ got.val # None
         => CompleteCloud(got.val[1])
            /\ \E d \in WellFormedScans :
                  /\ got.val[1].timestamp = d.stamp
                  /\ Len(got.val[1].points) = d.validPointsNum

\* a reader holds a two-point scan while a thread waits for the lock with
\* the next scan
C9_Witness ==
    /\ got.op = "get_latest_scan" /\ got.val # None
    /\ got.val[1].validPointsNum = 2
    /\ \E r \in Live : r.pc = "scan_lock" /\ Some(r.msg[1].scan) # got.val

\* C10: get_latest_scan() returns nothing exactly when no
\* _parse_scan_message has completed since construction, and
\* get_latest_imu() exactly when no _parse_imu_message has.
C10_NoneIffNothingDecoded ==
    /\ got.op = "get_latest_scan" => (got.val = None <=> ~got.done)
    /\ got.op = "get_latest_imu" => (got.val = None <=> ~got.done)

\* get_latest_scan() returned nothing to a reader of a running service that
\* has already published an IMU sample
C10_Witness ==
    /\ got.op = "get_latest_scan" /\ got.val = None
    /\ running /\ imuDone /\ latest_imu # None
    /\ \E r \in Live : r.pc = "recvfrom"

\* C11: at most one receive-loop thread is alive at any time.
C11_OneReceiveThread ==
    NumLive <= 1

\* the threads inside a with self.data_lock block
Holders == {a \in Actors : a[2].pc = "scan_cloud"}

\* C12: data_lock is held only by a thread between the two assignments of
\* _parse_scan_message, whose next step releases it and can always be
\* taken; it is never held by a thread that is receiving, decoding or
\* waiting, so a getter is never kept out for longer than that step.
C12_LockHeldOnlyToAssign ==
    /\ data_lock <=> Holders # {}
    /\ \A a \in Holders :
          /\ ENABLED PublishCloud(a)
          /\ a[1] = "other" => CopiesIn(a[2], others) = 1
    /\ Cardinality(Holders) <= 1
    /\ ~data_lock =>
          /\ ENABLED get_latest_scan
          /\ ENABLED get_latest_imu
          /\ ENABLED get_latest_raw_data

\* the lock is held by the receive thread while a reader that has already
\* polled a scan would poll again
C12_Witness ==
    /\ data_lock
    /\ got.op = "get_latest_scan" /\ got.val # None
    /\ \E a \in Holders : Some(a[2].msg[1].scan) # got.val

\* a thread that has decoded the IMU datagram d and goes to the assignment
DecodedImu(d) == [NoThread EXCEPT !.pc = "imu_lock", !.msg = Some(ImuOf(d))]

\* C28 as stated: the IMU payload is 48 bytes, so a type-101 datagram of
\* 8 + 48 bytes or more is decoded.
C28_ImuPayload48 ==
    [][\A a \in Actors : \A d \in Datagrams :
          (Receive(a, d) /\ HasBytes(d, 4) /\ d.mtype = MSG_IMU /\ d.size >= 8 + 48)
              => Becomes(a, DecodedImu(d))]_vars

\* C28, amended: the IMU payload is 52 bytes.  A type-101 datagram of 60
\* bytes or more is decoded and the assignment that follows sets latest_imu
\* to its record; a shorter one (56 bytes as well) is skipped and leaves the
\* slots as they were.
C28_ImuPayload52 ==
    [][/\ \A a \in Actors : \A d \in Datagrams :
            (Receive(a, d) /\ HasBytes(d, 4) /\ d.mtype = MSG_IMU)
                => IF d.size >= 60
                   THEN Becomes(a, DecodedImu(d))
                   ELSE Becomes(a, Skipped) /\ slots' = slots
       /\ \A a \in Actors : \A d \in WellFormedImus :
            (PublishImu(a) /\ a[2] = DecodedImu(d)) => latest_imu' = Some(ImuOf(d))]_vars

\* the record of the second 60-byte IMU datagram is in latest_imu while a
\* thread that has just skipped a datagram is back in its loop
C28_Witness ==
    /\ latest_imu = Some(ImuOf(DgImu2))
    /\ latest_scan = None
    /\ \E r \in Live : r.pc = "while" /\ r.note = "skipped"

\* C33: whenever data_lock is free, latest_scan and latest_point_cloud are
\* both empty or the point cloud is the conversion of the scan: its
\* timestamp is the scan's stamp and it has valid_point_count points, the
\* scan's coordinates and intensities in order.
C33_ScanAndCloudAgree ==
    ~data_lock =>
        \/ latest_scan = None /\ latest_point_cloud = None
        \/ /\ latest_scan # None /\ latest_point_cloud # None
           /\ latest_point_cloud[1].timestamp = latest_scan[1].stamp
           /\ Len(latest_point_cloud[1].points) = latest_scan[1].validPointsNum
           /\ Len(latest_point_cloud[1].intensities) = latest_scan[1].validPointsNum
           /\ \A i \in 1..latest_scan[1].validPointsNum :
                 /\ latest_point_cloud[1].points[i] =
                        <<latest_scan[1].points[i].x, latest_scan[1].points[i].y,
                          latest_scan[1].points[i].z>>
                 /\ latest_point_cloud[1].intensities[i] = latest_scan[1].points[i].intensity

\* the lock is free, the two slots hold the scan of two points, and a
\* thread waits for the lock with the scan of no point
C33_Witness ==
    /\ ~data_lock
    /\ latest_scan # None /\ latest_scan[1].validPointsNum = 2
    /\ latest_point_cloud # None /\ Len(latest_point_cloud[1].points) = 2
    /\ \E r \in Live : r.pc = "scan_lock" /\ r.msg[1].scan.validPointsNum = 0

\* C35: after a connect() that succeeded, a start_streaming() that returns
\* True starts its loop on a socket that has not been closed.
C35_StartOnOpenSocket ==
    [][(StartStreaming(MaxThreads) /\ StartReturns /\ lastConnect = "ok")
          => ~self_socket[1].closed]_vars

\* C36: the assignment of an IMU message leaves latest_scan and
\* latest_point_cloud as they were and the two assignments of a scan leave
\* latest_imu as it was.  No other step changes a slot: latest_imu only
\* changes in the step in which a thread that holds a decoded IMU message
\* assigns it, the other two slots only in a step of a thread that holds a
\* decoded scan, so a datagram just received, decoded or not, and a
\* receive timeout leave all three.
C36_OtherSlotUntouched ==
    [][/\ \A a \in Actors :
            /\ PublishImu(a)
                  => (latest_scan' = latest_scan /\ latest_point_cloud' = latest_point_cloud)
            /\ (PublishScan(a) \/ PublishCloud(a)) => latest_imu' = latest_imu
       /\ latest_imu' # latest_imu
            => /\ latest_scan' = latest_scan /\ latest_point_cloud' = latest_point_cloud
               /\ \E a \in Actors :
                     a[2].pc = "imu_lock" /\ latest_imu' = a[2].msg /\ Becomes(a, NoThread)
       /\ (latest_scan' # latest_scan \/ latest_point_cloud' # latest_point_cloud)
            => /\ latest_imu' = latest_imu
               /\ \E a \in Actors : a[2].pc \in {"scan_lock", "scan_cloud"}
       /\ (\A a \in Actors : a[2].pc \in {"while", "recvfrom"}) => slots' = slots]_vars

\* the scan of two points and its cloud are cached, the first IMU sample
\* has been replaced by the second, and the thread is back in recvfrom
C36_Witness ==
    /\ latest_scan = Some(ScanOf(DgScan2))
    /\ latest_point_cloud # None
    /\ latest_imu = Some(ImuOf(DgImu2))
    /\ \E r \in Live : r.pc = "recvfrom" /\ r.tmo

\* the place of scan m in the order of arrival
Place(m) == CHOOSE i \in 1..Len(arrived) : arrived[i] = m

\* C34: a get_latest_scan() that follows one that returned a frame returns
\* a frame too, and not one that arrived before the frame returned last.
C34_PollsInArrivalOrder ==
    [][(get_latest_scan /\ got.op = "get_latest_scan" /\ got.val # None)
          => /\ got'.val # None
             /\ Place(got'.val[1]) >= Place(got.val[1])]_vars

\* ------------------------------------------------------ the detector's claims
\* the call under way has returned
Returned(fn) == det_in.fn = fn /\ det_out # None

\* the places <<k, m>> of the clusters cs that hold index i
Places(cs, i) ==
    {km \in UNION {{<<k, m>> : m \in 1..Len(cs[k])} : k \in 1..Len(cs)} :
        cs[km[1]][km[2]] = i}

\* C13: the clusters simple_clustering returns are non-empty, and every
\* index of the input is at exactly one place of exactly one cluster.
C13_ClustersPartitionInput ==
    Returned("simple_clustering") =>
        LET cs == det_out[1]
            n == Len(det_in.arg)
        IN  /\ \A k \in 1..Len(cs) : Len(cs[k]) > 0
            /\ \A k \in 1..Len(cs) : \A m \in 1..Len(cs[k]) : cs[k][m] \in 1..n
            /\ \A i \in 1..n : Cardinality(Places(cs, i)) = 1

\* an input in which the same coordinates occur twice was split in several
\* clusters
C13_Witness ==
    /\ Returned("simple_clustering")
    /\ Len(det_out[1]) >= 2
    /\ \E i, j \in 1..Len(det_in.arg) : i # j /\ det_in.arg[i] = det_in.arg[j]

\* two points are adjacent when their distance is strictly under the
\* clustering distance
Adjacent(p, q) ==
    (p[1] - q[1]) * (p[1] - q[1]) + (p[2] - q[2]) * (p[2] - q[2])
        + (p[3] - q[3]) * (p[3] - q[3]) < CLUSTERING_DISTANCE * CLUSTERING_DISTANCE

\* the indices reachable from S by chains of adjacent points
RECURSIVE Grow(_, _)
Grow(pts, S) ==
    LET T == S \cup {j \in 1..Len(pts) : \E i \in S : Adjacent(pts[i], pts[j])}
    IN  IF T = S THEN S ELSE Grow(pts, T)

\* C14: two input points are in the same cluster if and only if a chain of
\* input points joins them whose consecutive distances are each strictly
\* under the clustering distance.
C14_ClustersAreComponents ==
    Returned("simple_clustering") =>
        LET cs == det_out[1]
            pts == det_in.arg
        IN  \A i, j \in 1..Len(pts) :
                (\E k \in 1..Len(cs) : i \in Range(cs[k]) /\ j \in Range(cs[k]))
                    <=> j \in Grow(pts, {i})

\* two points exactly CLUSTERING_DISTANCE apart are in one cluster through a
\* third that comes after both
C14_Witness ==
    /\ Returned("simple_clustering")
    /\ det_in.arg = << <<0, 0, 100>>, <<30, 40, 100>>, <<10, 0, 100>> >>
    /\ Len(det_out[1]) = 1

\* the height band, both ends included
InBand(p) == min_height <= p[3] /\ p[3] <= max_height

\* C15: detect_objects returns what it returns for the input without the
\* points outside [min_height, max_height], nothing when fewer than
\* min_cluster_size points are inside, and every object it returns has its
\* centroid height inside the band and no more points than are inside.
C15_HeightBandFilter ==
    Returned("detect_objects") =>
        LET pts == det_in.arg
            objs == det_out[1]
            inside == {i \in 1..Len(pts) : InBand(pts[i])}
        IN  /\ objs = detect_objects(SelectSeq(pts, InBand))
            /\ Cardinality(inside) < min_cluster_size => objs = <<>>
            /\ \A k \in 1..Len(objs) :
                  /\ objs[k].point_count <= Cardinality(inside)
                  /\ min_height * objs[k].center[3].den <= objs[k].center[3].num
                  /\ objs[k].center[3].num <= max_height * objs[k].center[3].den

\* an object was returned for an input that holds a point on the lower end
\* of the band and a point just under it
C15_Witness ==
    /\ Returned("detect_objects")
    /\ det_out[1] # <<>>
    /\ <<0, 0, 50>> \in Range(det_in.arg)
    /\ <<0, 0, 49>> \in Range(det_in.arg)

\* C16: for (0,0,1), (0.1,0,1), (5,5,1) and the configured clustering
\* distance of 0.5 the clustering gives two clusters, of sizes 2 and 1.
C16_ThreePointScenario ==
    (Returned("simple_clustering") /\ det_in.arg = Scenario3) =>
        /\ CLUSTERING_DISTANCE = 50
        /\ Len(det_out[1]) = 2
        /\ Len(det_out[1][1]) = 2
        /\ Len(det_out[1][2]) = 1

\* the three points have been clustered
C16_Witness ==
    /\ Returned("simple_clustering")
    /\ det_in.arg = Scenario3
    /\ det_out[1] = << <<1, 2>>, <<3>> >>

\* the extent of cluster c along axis k is e
IsExtent(c, k, e) ==
    \E i, j \in 1..Len(c) :
        /\ c[j][k] - c[i][k] = e
        /\ \A m \in 1..Len(c) : c[i][k] <= c[m][k] /\ c[m][k] <= c[j][k]

\* C17: for an analysed cluster, size is the three extents, center the
\* centroid and distance the centroid's horizontal distance, and
\* is_drone_like holds exactly when the extents are inside their bands, the
\* distance inside the detection range and the centroid height at least the
\* minimum, all ends included; the 20-point scenario is a target.
C17_TargetRule ==
    (Returned("analyze_cluster") /\ det_out[1] # None) =>
        LET c == det_in.arg
            o == det_out[1][1]
            n == Len(c)
        IN  /\ \A k \in 1..3 : IsExtent(c, k, o.size[k])
            /\ \A k \in 1..3 : o.center[k] = Q(SeqSum(Coord(c, k)), n)
            /\ o.distance = Root(o.center[1].num * o.center[1].num
                                    + o.center[2].num * o.center[2].num, n)
            /\ o.is_drone_like <=>
                  /\ DRONE_SIZE_MIN <= o.size[1] /\ o.size[1] <= DRONE_SIZE_MAX_XY
                  /\ DRONE_SIZE_MIN <= o.size[2] /\ o.size[2] <= DRONE_SIZE_MAX_XY
                  /\ DRONE_SIZE_MIN <= o.size[3] /\ o.size[3] <= DRONE_SIZE_MAX_Z
                  /\ RootWithin(DETECTION_DISTANCE_MIN, o.distance, DETECTION_DISTANCE_MAX)
                  /\ o.center[3].num >= MIN_HEIGHT * o.center[3].den
            /\ c = Scenario20 =>
                  /\ o.point_count = 20 /\ o.size = <<30, 30, 20>>
                  /\ o.distance = Root(20000 * 20000, 20)
                  /\ o.center[3] = Q(4000, 20)
                  /\ o.is_drone_like

\* the 20-point scenario has been analysed and is a target
C17_Witness ==
    /\ Returned("analyze_cluster")
    /\ det_in.arg = Scenario20
    /\ det_out[1] # None
    /\ det_out[1][1].is_drone_like

\* a quotient that is defined and lies in [0, 1]
InUnit(q) == q.den > 0 /\ 0 <= q.num /\ q.num <= q.den

\* C18: calculate_confidence returns a value in [0, 1] for every non-empty
\* cluster and all non-negative extents, a single point and zero extents
\* included, and divides by no zero; so does the confidence analyze_cluster
\* reports.
C18_ConfidenceInUnit ==
    /\ Returned("calculate_confidence") => InUnit(det_out[1])
    /\ (Returned("analyze_cluster") /\ det_out[1] # None)
          => InUnit(det_out[1][1].confidence)

\* the confidence of a single point with zero extents has been computed
C18_Witness ==
    /\ Returned("calculate_confidence")
    /\ Len(det_in.arg) = 1
    /\ det_in.size[1] = 0 /\ det_in.size[2] = 0

\* C37: every object detect_objects returns is the analysis of one cluster
\* of the points inside the height band whose size is between
\* min_cluster_size and max_cluster_size, both included, and carries that
\* size as point_count; no two objects come from one cluster, no object
\* comes from a smaller or larger cluster, and the objects follow each
\* other as their clusters do.
C37_ObjectsFromSizedClusters ==
    Returned("detect_objects") =>
        LET pts == SelectSeq(det_in.arg, InBand)
            clusters == simple_clustering(pts)
            objs == det_out[1]
            sized == {k \in 1..Len(clusters) :
                        /\ min_cluster_size <= Len(clusters[k])
                        /\ Len(clusters[k]) <= max_cluster_size}
        IN  /\ min_cluster_size = 5 /\ max_cluster_size = 100
            /\ \E f \in [1..Len(objs) -> sized] :
                  /\ \A i, j \in 1..Len(objs) : i < j => f[i] < f[j]
                  /\ \A i \in 1..Len(objs) :
                        /\ objs[i].point_count = Len(clusters[f[i]])
                        /\ Some(objs[i])
                              = analyze_cluster(ClusterPoints(pts, clusters[f[i]]))

\* a list with a cluster of 5 points, then one of 101 and one of 6, gave
\* two objects, of 5 and of 6 points in that order
C37_Witness ==
    /\ Returned("detect_objects")
    /\ Len(det_in.arg) = (max_cluster_size + 1) + min_cluster_size + (min_cluster_size + 1)
    /\ Len(det_out[1]) = 2
    /\ det_out[1][1].point_count = min_cluster_size
    /\ det_out[1][2].point_count = min_cluster_size + 1

\* ------------------------------------------------------ the recorder's claims
\* C19: with max_scans = N the scan count never exceeds N, record() is
\* never inside recvfrom and receives nothing once the count is N, an IMU
\* message leaves the count as it is, and the loop head that finds the
\* count at N stops the recording whatever the elapsed time.
C19_ScanBound ==
    /\ [](/\ scan_count <= max_scans
          /\ scan_count = Len(scan_data)
          /\ rec_pc = "recvfrom" => scan_count < max_scans
          /\ rec_stop = "max_scans" => scan_count = max_scans)
    /\ [][/\ \A d \in RecDatagrams :
                (RecRecv(d) /\ HasBytes(d, 4) /\ d.mtype = MSG_IMU)
                    => (scan_count' = scan_count /\ scan_data' = scan_data)
          /\ scan_count = max_scans => received' = received
          /\ (LoopHead /\ scan_count = max_scans)
                => (rec_stop' = "max_scans" /\ rec_pc' = "finally")]_allVars

\* a recording of two scans and an IMU sample was stopped by max_scans = 2,
\* the second scan having come when max_duration had already elapsed
C19_Witness ==
    /\ rec_pc = "done"
    /\ rec_stop = "max_scans"
    /\ max_scans = 2 /\ scan_count = 2 /\ imu_count >= 1
    /\ scan_data[2].system_time - start_time[1] >= max_duration

\* C20: with unlimited max_scans and a max_duration that does elapse, a
\* record() to which no datagram ever arrives eventually stops and returns.
C20_DurationStops ==
    (max_scans = Unlimited /\ max_duration < MaxTime)
        => <>(rec_pc = "done" \/ received > 0)

\* the archives written so far that hold scan arrays
WithScans == {k \in 1..Len(flushed) : flushed[k].scans # None}
ScansOf(k) == flushed[k].scans[1]

\* C21: in every flushed archive the sum of scan_valid_points, the number
\* of rows of points and the length of point_scan_indices are equal.
C21_ArchiveConsistent ==
    \A k \in WithScans :
        /\ SeqSum(ScansOf(k).scan_valid_points) = Len(ScansOf(k).points)
        /\ Len(ScansOf(k).points) = Len(ScansOf(k).point_scan_indices)

\* how many of the first j entries of idx are equal to entry j
Rank(idx, j) == Cardinality({h \in 1..j : idx[h] = idx[j]})

C23_EmptyArchiveWritten ==
    (rec_pc = "done" /\ scan_data = <<>> /\ ~rec_ret[1].raised)
        => /\ rec_ret[1].file # None
           /\ rec_ret[1].file[1].scans # None
           /\ rec_ret[1].file[1].scans[1].scan_ids = <<>>
           /\ rec_ret[1].file[1].scans[1].points = <<>>

\* the scan frames and the IMU samples archive k holds, each as its device
\* stamp, its id and the clock reading at which it was recorded
ScanFrames(k) ==
    IF flushed[k].scans = None THEN {}
    ELSE {<<ScansOf(k).scan_timestamps[i], ScansOf(k).scan_ids[i],
            ScansOf(k).scan_system_times[i]>> : i \in 1..Len(ScansOf(k).scan_ids)}
ImuSamples(k) ==
    IF flushed[k].imus = None THEN {}
    ELSE LET a == flushed[k].imus[1]
         IN  {<<a.imu_timestamps[i], a.imu_ids[i], a.imu_system_times[i]>> :
                 i \in 1..Len(a.imu_ids)}

\* C24: a flush clears what it has written, so no scan frame and no IMU
\* sample is held by two archives written by one recorder.
C24_FlushedOnce ==
    \A j, k \in 1..Len(flushed) :
        j < k => /\ ScanFrames(j) \cap ScanFrames(k) = {}
                 /\ ImuSamples(j) \cap ImuSamples(k) = {}

\* a step in which save_data ends
FlushEnds == rec_pc = "save" /\ rec_pc' = "done"

\* C25: a save_data that fails leaves scan_data, imu_data, the two counters
\* and start_time as they were and raises to its caller; a save_data that
\* had data and wrote no file has raised; and whatever flush does write,
\* at the first try or at a later one, holds the arrays of the buffers.
C25_FailedFlushKeepsBuffers ==
    /\ [][/\ (FlushEnds /\ rec_ret'[1].raised)
                => UNCHANGED <<scan_data, imu_data, scan_count, imu_count, start_time>>
          /\ (FlushEnds /\ flushed' = flushed /\ ~(scan_data = <<>> /\ imu_data = <<>>))
                => rec_ret'[1].raised]_allVars
    /\ [](\A k \in 1..Len(flushed) :
              /\ flushed[k].scans = save_data.scans
              /\ flushed[k].imus = save_data.imus)

\* record() raised out of a save_data that could not write its file, and
\* the save_data called after it wrote the two recorded scans
C25_Witness ==
    /\ rec_pc = "done"
    /\ calls = 2
    /\ Len(flushed) = 1
    /\ rec_ret[1].file = Some(flushed[1])
    /\ scan_count = 2
    /\ Writes

\* C26: in record() a datagram of an unknown message_type, or of type 101
\* or 102 with a payload too short to decode, adds nothing to the buffers
\* and leaves the while loop running.
C26_RecorderSkipsBadDatagram ==
    [][\A d \in RecDatagrams :
          (RecRecv(d) /\ HasBytes(d, 4) /\ RecOutcome(d) \in {"skip", "raise"})
              => /\ rec_pc' = "while"
                 /\ UNCHANGED <<scan_data, imu_data, scan_count, imu_count>>]_allVars

\* record() is inside its while loop
InLoop == rec_pc \in {"while", "recvfrom"}

\* the ways out of the loop: the two breaks and the two except clauses
Exits == {"max_scans", "max_duration", "interrupt", "error"}

\* C38: record() leaves its loop only for the finally clause, by one of
\* the two bounds, a KeyboardInterrupt or an exception; the finally clause
\* closes the socket and only then save_data() is called, once; from the
\* exit to the end of save_data() the buffers stay as they are, a file
\* written holds every buffered scan and sample, and no file is written
\* only when nothing was buffered or save_data raised.
C38_ExitClosesThenFlushes ==
    /\ [][/\ (InLoop /\ ~InLoop')
                => /\ rec_pc' = "finally" /\ rec_stop' \in Exits
                   /\ UNCHANGED <<scan_data, imu_data, flushed>>
          /\ (rec_pc = "finally" /\ rec_pc' # "finally")
                => /\ rec_pc' = "save" /\ sock_closed'
                   /\ UNCHANGED <<scan_data, imu_data, flushed, rec_ret>>
          /\ (rec_pc = "save" /\ rec_pc' # "save")
                => /\ rec_pc' = "done" /\ rec_ret' # None
                   /\ UNCHANGED <<scan_data, imu_data>>
                   /\ \/ /\ flushed' = flushed
                         /\ (scan_data = <<>> /\ imu_data = <<>>) \/ rec_ret'[1].raised
                      \/ /\ Len(flushed') = Len(flushed) + 1
                         /\ LET file == flushed'[Len(flushed')]
                            IN  /\ file.recording_info.scan_count = Len(scan_data)
                                /\ file.recording_info.imu_count = Len(imu_data)
                                /\ scan_data # <<>> =>
                                      /\ file.scans # None
                                      /\ Len(file.scans[1].scan_ids) = Len(scan_data)
                                /\ imu_data # <<>> =>
                                      /\ file.imus # None
                                      /\ Len(file.imus[1].imu_ids) = Len(imu_data)
          /\ rec_ret' # rec_ret => (rec_pc \in {"save", "new", "done"})]_allVars
    /\ [](/\ rec_pc = "save" => sock_closed /\ rec_ret = None
          /\ (InLoop \/ rec_pc = "finally") => rec_ret = None
          /\ rec_pc = "done" => sock_closed /\ rec_ret # None)

\* a record() that had buffered a scan was interrupted, closed its socket
\* and wrote the scan to a file
C38_Witness ==
    /\ rec_pc = "done"
    /\ rec_stop = "interrupt"
    /\ calls = 1
    /\ sock_closed
    /\ Len(scan_data) >= 1
    /\ Len(flushed) = 1
    /\ rec_ret = Some([raised |-> FALSE, file |-> Some(flushed[1])])

\* the points of a datagram, in wire order, as the recorder's rows
RowsOf(d) == [k \in 1..d.validPointsNum |-> PointRow(d.points[k])]

\* C30: the scan in latest_scan and every scan in the recorder's buffer
\* has as many points as its valid_point_count says, and they are the
\* points of one datagram in wire order; no datagram that carries fewer
\* points than it announces is published or recorded.
C30_WholeScansOnly ==
    /\ latest_scan # None =>
          /\ Len(latest_scan[1].points) = latest_scan[1].validPointsNum
          /\ \E d \in WellFormedScans : latest_scan[1] = ScanOf(d)
    /\ \A i \in 1..Len(scan_data) :
          /\ Len(scan_data[i].points) = scan_data[i].valid_points
          /\ \E d \in WellFormedScans \cap RecDatagrams :
                /\ scan_data[i].valid_points = d.validPointsNum
                /\ scan_data[i].scan_id = d.id
                /\ scan_data[i].points = RowsOf(d)

\* the recorder holds a scan of two points and one of none, and its loop
\* was ended by a scan that carried one point of the two it announced
C30_Witness ==
    /\ Len(scan_data) = 2
    /\ scan_data[1].points = <<PointRow(PA), PointRow(PB)>>
    /\ scan_data[2].valid_points = 0
    /\ rec_stop = "error"
    /\ latest_scan = None

\* --------------------------------------------------------- the wire's claims
\* the bytes of codec_in with another declared length
Redeclared(L) == [codec_in EXCEPT ![2] = <<"I", L>>]

\* C27: the declared length has no part in decoding.  The receiver and the
\* recorder make of a message what they make of the same bytes with any
\* other declared length, and each decodes a type-102 message exactly when
\* it holds 24 + 24 * valid_count bytes or more, trailing bytes or not.
C27_LengthIgnored ==
    codec_pc \in {"decoded", "encoded"} =>
        /\ Len(codec_in) >= 2 =>
              \A L \in {0, 16, 40, 48, 52, 999} :
                  /\ DecodeReceiver(FromWire(Redeclared(L))) = codec_dec.recv
                  /\ DecodeRecorder(FromWire(Redeclared(L))) = codec_dec.rec
        /\ (Total(codec_in) >= 4 /\ At(codec_in, 0, "I") = MSG_SCAN) =>
              LET enough == /\ Total(codec_in) >= 24
                            /\ Total(codec_in) >= 24 + 24 * At(codec_in, 20, "I")
              IN  /\ codec_dec.recv.scan # None <=> enough
                  /\ codec_dec.rec.scan # None <=> enough

\* both decoders have decoded a scan of one point that declares length 0
\* and carries four bytes after its point
C27_Witness ==
    /\ codec_pc = "decoded"
    /\ codec_in = Trailed(ScanWire(0, 10, 1, 1, <<PB>>))
    /\ codec_dec.recv.scan = Some(ScanUnitree(10, 1, 1, <<PB>>))
    /\ codec_dec.rec.scan # None

\* a message as the wire format lays it down: the declared length is the
\* number of bytes after the first eight, and a scan holds exactly the
\* point records it announces, an IMU sample exactly its 52 bytes
WellFormedWire(w) ==
    /\ Total(w) >= 24
    /\ At(w, 4, "I") = Total(w) - 8
    /\ \/ At(w, 0, "I") = MSG_SCAN /\ Total(w) = 24 + 24 * At(w, 20, "I")
       \/ At(w, 0, "I") = MSG_IMU /\ Total(w) = 60

\* C29: a well-formed message of either type is decoded, and the bytes the
\* publisher packs from the decoded record are the bytes received.
C29_RoundTrip ==
    WellFormedWire(codec_in) =>
        /\ codec_pc = "decoded" => (codec_dec.recv.scan # None \/ codec_dec.recv.imu # None)
        /\ codec_pc = "encoded" => codec_out = codec_in

\* a scan with no point has gone round
C29_Witness ==
    /\ codec_pc = "encoded"
    /\ codec_in = ScanWire(16, 10, 2, 0, <<>>)
    /\ codec_out = codec_in

\* ------------------------------------------------ the configuration's claims
\* C31: in a pass of the display filter made right after the high_precision
\* preset was applied, every object shown is drone-like and has a
\* confidence of at least the 0.5 threshold.
C31_HighPrecisionShowsOnlySure ==
    [][\A detected_objects \in TargetLists :
          (DisplayFilter(detected_objects)
              /\ cfg_ret = [op |-> "apply_preset", arg |-> "high", value |-> Word,
                            ret |-> TRUE])
              => /\ CONFIDENCE_THRESHOLD = 50
                 /\ \A k \in 1..Len(filtered_targets') :
                       /\ filtered_targets'[k].is_drone_like
                       /\ filtered_targets'[k].confidence >= 50]_allVars

\* the calls that change no attribute: a confidence that is no number in
\* [0, 1], a preset name that is no key
BadConfidence(value) == ~(value.kind = "num" /\ 0 <= value.v /\ value.v <= 100)

\* C32: CONFIDENCE_THRESHOLD is always in [0.0, 1.0]; set_confidence of a
\* value outside it, of nan or of a word returns False and changes no
\* attribute of DetectionConfig, and so does apply_preset of a name that
\* is not one of the four presets.
C32_ThresholdInUnit ==
    /\ [](0 <= CONFIDENCE_THRESHOLD /\ CONFIDENCE_THRESHOLD <= 100)
    /\ [][/\ \A value \in ConfidenceValues :
                (set_confidence(value) /\ BadConfidence(value))
                    => ~cfg_ret'.ret /\ UNCHANGED DetectionConfig
          /\ \A value \in ConfidenceValues :
                (set_confidence(value) /\ ~BadConfidence(value))
                    => cfg_ret'.ret /\ CONFIDENCE_THRESHOLD' = value.v
          /\ \A preset_name \in PresetNames \ PresetKeys :
                apply_preset(preset_name)
                    => ~cfg_ret'.ret /\ UNCHANGED DetectionConfig]_allVars

\* set_confidence(1.01) was refused after the balanced preset
C32_Witness ==
    /\ cfg_ret = [op |-> "set_confidence", arg |-> "", value |-> Num(101), ret |-> FALSE]
    /\ CONFIDENCE_THRESHOLD = 30
    /\ QUIET_MODE
    /\ ~SHOW_NON_DRONE_TARGETS

\* ---------------------------------------------------- the launcher's claims
\* C39: the detector child is spawned only after the publisher child was
\* spawned, recorded and found alive by poll(); wherever the publisher is
\* terminated the detector is no longer running; and when run() has
\* returned or exited, neither child is running.
C39_ChildrenStoppedInOrder ==
    /\ [][/\ (detector_child = "absent" /\ detector_child' # "absent")
                => /\ run_pc = "start_detector"
                   /\ publisher_process
                   /\ publisher_child # "absent"
          /\ (run_pc # "start_detector" /\ run_pc' = "start_detector")
                => run_pc = "publisher_sleep" /\ publisher_child = "alive"
          /\ (publisher_child = "alive" /\ publisher_child' = "terminated")
                => detector_child' # "alive"]_allVars
    /\ [](run_pc = "done" => publisher_child # "alive" /\ detector_child # "alive")

====
